---- MODULE Spec2Model ----
(***************************************************************************)
(* CodePitamah backend: the Redis sliding-window rate limiter, the JWT     *)
(* identity manager and the analyze endpoints.                             *)
(*                                                                         *)
(* Time is a natural number of clock units.  The plan table of             *)
(* RedisRateLimiter.__init__ (10/50/200/1000 requests per 60 seconds, 60   *)
(* seconds of extra key life, 24 hours of token life) is kept in shape but *)
(* scaled down: check_rate_limit reads it only through limits["requests"]  *)
(* and limits["window"].                                                   *)
(***************************************************************************)
EXTENDS Integers, Sequences, FiniteSets, TLC

\* ------------------------------------------------------------------ bounds
MaxClock == 5
MaxCalls == 6
MaxOutages == 1
MaxJoins == 1
RequestsAnonymous == 2
RequestsFree == 3
RequestsPro == 4
RequestsEnterprise == 5
Window == 3
CleanupExtra == 1
UtcOffset == 1

MaxRequests == 2
MaxUsers == 1
DayLength == 4
\* The mounted API's in-process limiter, scaled down from 10 requests per 60
\* seconds, and the number of requests sent to the mounted API.
RATE_LIMIT_REQUESTS == 2
RATE_LIMIT_WINDOW == 3
MaxMountedRequests == 3
\* detect_suspicious_activity: the thresholds of its four indicators, scaled
\* down from 100 records, 3 dangerous attempts, 5 violations and 10 overnight
\* requests; the overnight hours, scaled down from 2..6 of 24; and the number
\* of track_user_activity calls.
VolumeThreshold == 1
DangerousThreshold == 0
ViolationThreshold == 0
UnusualThreshold == 1
UnusualFrom == 1
UnusualTo == 2
MaxTracked == 3
\* The number of requests of a client that runs into its quota.
MaxQuotaRequests == 3

\* ------------------------------------------------------ program constants
MAX_ANALYSIS_TIME == 30
MAX_CODE_SIZE == 100000

None == 0 - 1
Procs == {1, 2}
Times == 0..MaxClock

\* ----------------------------------------------------------- plan table
default_limits ==
    [anonymous |-> [requests |-> RequestsAnonymous, window |-> Window],
     free |-> [requests |-> RequestsFree, window |-> Window],
     pro |-> [requests |-> RequestsPro, window |-> Window],
     enterprise |-> [requests |-> RequestsEnterprise, window |-> Window]]

Plans == DOMAIN default_limits

\* limits = self.default_limits.get(user_plan, self.default_limits["anonymous"])
Limits(user_plan) ==
    IF user_plan \in Plans THEN default_limits[user_plan]
    ELSE default_limits["anonymous"]

\* key = f"rate_limit:{limit_type}:{identifier}"
RateKey(limit_type, identifier) == <<"rate_limit", limit_type, identifier>>

\* The (identifier, limit_type, user_plan) triples the endpoints pass.
CallArgs ==
    {[identifier |-> "ip1", limit_type |-> "ip", user_plan |-> "anonymous"]}

RateKeys == {RateKey(a.limit_type, a.identifier) : a \in CallArgs}

\* The clients and accounts of the endpoints.
IPs == {"ip1"}

\* The client addresses that call the mounted API.
ClientIPs == {"ip1", "ip2"}
Emails == {"a@example.com"}

\* The plans asked for at registration.
RegisterPlans == {"free", "gold"}

\* user_id = f"user_{int(time.time())}_{md5(email)[:8]}"
UserId(t, email) == <<"user", t, email>>

\* datetime.utcnow().strftime('%Y%m%d')
Day(t) == t \div DayLength

\* key = f"user_activity:{user_id}:{day}"
ActivityKey(user_id, day) == <<"user_activity", user_id, day>>

\* datetime.timestamp() of the naive value utcnow() returns: the naive value
\* is read as local time, which is UtcOffset units behind UTC.
Timestamp(dt) == dt + UtcOffset

\* datetime.fromtimestamp(): epoch seconds back to a naive local value.
FromTimestamp(ts) == ts - UtcOffset

\* str(current_time.timestamp()), the member name of a sorted-set entry.
Str(ts) == ToString(ts)

VARIABLES
    now,        \* the wall clock, as datetime.utcnow() reads it
    redis_up,   \* whether the shared store answers
    outages,    \* number of store outages so far
    zsets,      \* store: key -> sorted set, a set of [member, score]
    lists,      \* store: key -> list, newest first
    expire_at,  \* store: key -> instant the key expires, or None
    call,       \* per caller: the check_rate_limit call in flight
    ncalls,     \* number of calls started
    njoins,     \* number of calls started while another was in flight
    admitted,   \* history: key -> clock reading -> calls admitted by the store path
    returned,   \* history: key -> the last two calls returned, oldest first
    streak,     \* history: key -> the run of sequential calls since the empty record
    issued,     \* the tokens /register has handed out
    http,       \* the last request an endpoint served, with its response
    nreq,       \* number of requests served
    rate_limit_storage, \* mounted API: client IP -> the readings of its admitted requests
    passed,     \* history: client IP -> clock reading -> requests check_rate_limit let pass
    report,     \* the last value detect_suspicious_activity returned, with its user
    answer,     \* the last call of the limiter's status and reset functions, with its value
    active_connections, \* WebSocketManager: the accepted websockets, in order
    subscriptions,      \* WebSocketManager: channel -> set of websockets
    is_broadcasting,    \* WebSocketManager: the flag the broadcast loop tests
    broadcast_task,     \* WebSocketManager: the task of the broadcast loop
    handler,    \* per websocket: where its /ws handler stands
    peer,       \* per websocket: whether the client still takes messages
    run         \* the last call of CodeAnalyzer.analyze_code, with its result

store_vars == <<zsets, lists, expire_at>>

limiter_vars == <<call, ncalls, njoins, admitted, returned, streak>>

api_vars == <<issued, http, nreq>>

mounted_vars == <<rate_limit_storage, passed>>

ledger_vars == <<report>>

admin_vars == <<answer>>

socket_vars == <<active_connections, subscriptions, is_broadcasting, broadcast_task,
                 handler, peer>>

analyzer_vars == <<run>>

vars == <<now, redis_up, outages, store_vars, limiter_vars, api_vars, mounted_vars,
          ledger_vars, admin_vars, socket_vars, analyzer_vars>>

Idle == [pc |-> "idle"]

\* streak: n calls returned, the first at reading t0, and whether all of them
\* ran one after the other on the store path.
NoStreak == [n |-> 0, t0 |-> None, clean |-> TRUE]

NoRequest == [endpoint |-> "none"]

NoReport == [user_id |-> None]

NoAnswer == [op |-> "none"]

NoRun == [language |-> "none"]

\* self.broadcast_task = None
NoTask == "None"

\* The websockets that clients open on /ws.
WebSockets == {"ws1", "ws2"}

EmptyStore == [k \in {} |-> None]

Init ==
    /\ now = 0
    /\ redis_up = TRUE
    /\ outages = 0
    /\ zsets = EmptyStore
    /\ lists = EmptyStore
    /\ expire_at = EmptyStore
    /\ call = [p \in Procs |-> Idle]
    /\ ncalls = 0
    /\ njoins = 0
    /\ admitted = [k \in RateKeys |-> [t \in Times |-> 0]]
    /\ returned = [k \in RateKeys |-> <<>>]
    /\ streak = [k \in RateKeys |-> NoStreak]
    /\ issued = {}
    /\ http = NoRequest
    /\ nreq = 0
    /\ rate_limit_storage = [ip \in ClientIPs |-> <<>>]
    /\ passed = [ip \in ClientIPs |-> [t \in Times |-> 0]]
    /\ report = NoReport
    /\ answer = NoAnswer
    /\ active_connections = <<>>
    /\ subscriptions = EmptyStore
    /\ is_broadcasting = FALSE
    /\ broadcast_task = NoTask
    /\ handler = [websocket \in WebSockets |-> "waiting"]
    /\ peer = [websocket \in WebSockets |-> "there"]
    /\ run = NoRun

\* ------------------------------------------------------- store commands
\* The store holds the keys that exist: a key -> value function.
Get(store, k, empty) == IF k \in DOMAIN store THEN store[k] ELSE empty

Put(store, k, v) == [x \in DOMAIN store \cup {k} |-> IF x = k THEN v ELSE store[x]]

Drop(store, keys) == [x \in DOMAIN store \ keys |-> store[x]]

\* ZREMRANGEBYSCORE key min max: drops the entries with min <= score <= max.
ZRemRangeByScore(zset, min, max) ==
    {e \in zset : ~(min <= e.score /\ e.score <= max)}

\* ZCARD key
ZCard(zset) == Cardinality(zset)

\* ZADD key score member: a member already present keeps one entry and takes
\* the new score.
ZAdd(zset, member, score) ==
    {e \in zset : e.member # member} \cup {[member |-> member, score |-> score]}

\* ZRANGE key 0 0 WITHSCORES: the entry of least score, if any.
ZRangeFirst(zset) ==
    IF zset = {} THEN <<>>
    ELSE <<CHOOSE e \in zset : \A f \in zset : e.score <= f.score>>

\* A key whose time to live has run out is gone.
Expired(k, t) == k \in DOMAIN expire_at /\ expire_at[k] <= t

\* The sorted set and the list under a key; a key that does not exist reads
\* as the empty one.
ZSet(k) == Get(zsets, k, {})

List(k) == Get(lists, k, <<>>)


\* ---------------------------------------------- RedisRateLimiter, pure parts
\* window_start = current_time - timedelta(seconds=limits["window"])
WindowStart(current_time, limits) == current_time - limits.window

\* The four commands queued on the pipeline and run by pipe.execute() as one
\* MULTI/EXEC transaction: evict, count, insert, refresh the time to live.
\* results[1] is the count taken after the eviction and before the insert.
Pipeline(zset, current_time, limits) ==
    LET evicted == ZRemRangeByScore(zset, 0, Timestamp(WindowStart(current_time, limits)))
        ts == Timestamp(current_time)
    IN  [zset |-> ZAdd(evicted, Str(ts), ts),
         current_count |-> ZCard(evicted),
         ttl |-> limits.window + CleanupExtra]

\* limit_exceeded = current_count >= limits["requests"]
LimitExceeded(current_count, limits) == current_count >= limits.requests

\* remaining_requests = max(0, limits["requests"] - current_count)
RemainingRequests(current_count, limits) ==
    IF limits.requests - current_count > 0 THEN limits.requests - current_count ELSE 0

\* reset_time = fromtimestamp(oldest score) + window, or None without entries
ResetTime(oldest_requests, limits) ==
    IF oldest_requests = <<>> THEN None
    ELSE FromTimestamp(oldest_requests[1].score) + limits.window

\* The value of a dictionary key that is not set.
NoError == ""

\* The dictionary check_rate_limit returns when the store answered; it has no
\* "error" key.
CheckResult(current_count, oldest_requests, user_plan) ==
    LET limits == Limits(user_plan)
    IN  [allowed |-> ~LimitExceeded(current_count, limits),
         current_count |-> current_count,
         limit |-> limits.requests,
         remaining |-> RemainingRequests(current_count, limits),
         reset_time |-> ResetTime(oldest_requests, limits),
         window_seconds |-> limits.window,
         plan |-> user_plan,
         error |-> NoError]

\* The dictionary returned from the except redis.RedisError branch.
FailOpenResult(user_plan) ==
    LET limits == Limits(user_plan)
    IN  [allowed |-> TRUE,
         current_count |-> 0,
         limit |-> limits.requests,
         remaining |-> limits.requests,
         reset_time |-> None,
         window_seconds |-> limits.window,
         plan |-> user_plan,
         error |-> "Redis unavailable, allowing request"]

\* ------------------------------------- RedisRateLimiter.check_rate_limit
KeyOf(a) == RateKey(a.limit_type, a.identifier)

InFlight(q, k) == call[q].pc # "idle" /\ KeyOf(call[q].args) = k

\* What a pipeline run at reading current_time would count for key k.
WouldCount(k, current_time, limits) ==
    ZCard(ZRemRangeByScore(ZSet(k), 0, Timestamp(WindowStart(current_time, limits))))

\* Caller p enters check_rate_limit and reads the clock (lines 41-44).
\* Callers are interchangeable: caller 2 is the one that joins caller 1.
\* raced marks two calls in flight for one key that have both read the clock,
\* have not run their pipelines, and both see a record of quota - 1 entries.
CallStart(p, a) ==
    LET k == KeyOf(a)
        limits == Limits(a.user_plan)
        others == {q \in Procs \ {p} : InFlight(q, k)}
        rivals == {q \in others :
                      /\ call[q].pc = "pipe"
                      /\ WouldCount(k, now, limits) = limits.requests - 1
                      /\ WouldCount(k, call[q].current_time, limits) = limits.requests - 1}
        joining == \E q \in Procs \ {p} : call[q].pc # "idle"
    IN  /\ call[p].pc = "idle"
        /\ p = 2 => call[1].pc # "idle"
        /\ ncalls < MaxCalls
        /\ ncalls' = ncalls + 1
        /\ joining => njoins < MaxJoins
        /\ njoins' = njoins + (IF joining THEN 1 ELSE 0)
        /\ call' = [q \in Procs |->
                      IF q = p
                      THEN [pc |-> "pipe", args |-> a, current_time |-> now,
                            overlap |-> others # {},
                            raced |-> rivals # {},
                            rival_allowed |-> FALSE,
                            current_count |-> 0]
                      ELSE IF q \in rivals THEN [call[q] EXCEPT !.raced = TRUE, !.overlap = TRUE]
                      ELSE IF q \in others THEN [call[q] EXCEPT !.overlap = TRUE]
                      ELSE call[q]]
        /\ UNCHANGED <<now, redis_up, outages, store_vars, admitted, returned, streak, api_vars, mounted_vars, ledger_vars, admin_vars,
                  socket_vars, analyzer_vars>>

\* What the history keeps of a returned call.
Entry(c, result) ==
    [t |-> c.current_time, overlap |-> c.overlap, raced |-> c.raced,
     rival_allowed |-> c.rival_allowed, result |-> result]

StorePath(result) == result.error = NoError

LastTwo(seq, e) == IF Len(seq) < 2 THEN Append(seq, e) ELSE <<seq[2], e>>

\* check_rate_limit returns result to caller p.
Return(p, result) ==
    LET c == call[p]
        k == KeyOf(c.args)
        e == Entry(c, result)
        granted == StorePath(result) /\ result.allowed
        s == streak[k]
    IN  /\ call' = [q \in Procs |->
                      IF q = p THEN Idle
                      ELSE IF c.raced /\ call[q].pc # "idle" /\ call[q].raced
                      THEN [call[q] EXCEPT !.rival_allowed = @ \/ granted]
                      ELSE call[q]]
        /\ returned' = [returned EXCEPT ![k] = LastTwo(@, e)]
        /\ admitted' = [admitted EXCEPT ![k][c.current_time] = @ + (IF granted THEN 1 ELSE 0)]
        /\ streak' = [streak EXCEPT ![k] =
                         [n |-> s.n + 1,
                          t0 |-> IF s.n = 0 THEN c.current_time ELSE s.t0,
                          clean |-> s.clean /\ ~c.overlap /\ StorePath(result)]]

\* pipe.execute() (lines 46-64), or the RedisError it raises (lines 89-101).
Execute(p) ==
    LET c == call[p]
        k == KeyOf(c.args)
        r == Pipeline(ZSet(k), c.current_time, Limits(c.args.user_plan))
    IN  /\ c.pc = "pipe"
        /\ IF redis_up
           THEN /\ zsets' = Put(zsets, k, r.zset)
                /\ expire_at' = Put(expire_at, k, now + r.ttl)
                /\ call' = [call EXCEPT ![p].pc = "zrange",
                                        ![p].current_count = r.current_count]
                /\ UNCHANGED <<admitted, returned, streak>>
           ELSE /\ Return(p, FailOpenResult(c.args.user_plan))
                /\ UNCHANGED <<zsets, expire_at>>
        /\ UNCHANGED <<now, redis_up, outages, lists, ncalls, njoins, api_vars, mounted_vars, ledger_vars, admin_vars,
                  socket_vars, analyzer_vars>>

\* The zrange for the oldest entry and the return (lines 66-87), or the
\* RedisError branch when the store fails at this command.
ZRange(p) ==
    LET c == call[p]
        k == KeyOf(c.args)
    IN  /\ c.pc = "zrange"
        /\ IF redis_up
           THEN Return(p, CheckResult(c.current_count, ZRangeFirst(ZSet(k)), c.args.user_plan))
           ELSE Return(p, FailOpenResult(c.args.user_plan))
        /\ UNCHANGED <<now, redis_up, outages, store_vars, ncalls, njoins, api_vars, mounted_vars, ledger_vars, admin_vars,
                  socket_vars, analyzer_vars>>

\* ------------------------------------------------------------ environment
\* Time passes; the store drops the keys whose time to live has run out.
Tick ==
    /\ now < MaxClock
    /\ now' = now + 1
    /\ LET gone == {k \in DOMAIN expire_at : Expired(k, now + 1)}
       IN  /\ zsets' = Drop(zsets, gone)
           /\ lists' = Drop(lists, gone)
           /\ expire_at' = Drop(expire_at, gone)
    /\ UNCHANGED <<redis_up, outages, limiter_vars, api_vars, mounted_vars, ledger_vars, admin_vars,
                  socket_vars, analyzer_vars>>

\* The shared store stops answering, and answers again.
RedisDown ==
    /\ redis_up
    /\ outages < MaxOutages
    /\ redis_up' = FALSE
    /\ outages' = outages + 1
    /\ UNCHANGED <<now, store_vars, limiter_vars, api_vars, mounted_vars, ledger_vars, admin_vars,
                  socket_vars, analyzer_vars>>

RedisUp ==
    /\ ~redis_up
    /\ redis_up' = TRUE
    /\ UNCHANGED <<now, outages, store_vars, limiter_vars, api_vars, mounted_vars, ledger_vars, admin_vars,
                  socket_vars, analyzer_vars>>

\* The whole of check_rate_limit as one step of an endpoint: the pipeline and
\* the zrange with the store up, the except branch with the store down.
CheckRateLimit(identifier, limit_type, user_plan) ==
    LET k == RateKey(limit_type, identifier)
        r == Pipeline(ZSet(k), now, Limits(user_plan))
    IN  IF redis_up
        THEN [result |-> CheckResult(r.current_count, ZRangeFirst(r.zset), user_plan),
              zsets |-> Put(zsets, k, r.zset),
              expire_at |-> Put(expire_at, k, now + r.ttl)]
        ELSE [result |-> FailOpenResult(user_plan),
              zsets |-> zsets,
              expire_at |-> expire_at]

\* ---------------------------------------------------------- JWTUserManager
secret_key == "your-secret-key-change-in-production"

\* timedelta(hours=24)
TokenLifetime == DayLength

\* jwt.encode(payload, secret_key): the payload, readable by anyone, and a
\* signature that names the key it was made with.
JwtEncode(payload, key) == [wellformed |-> TRUE, payload |-> payload, sig |-> key]

\* create_user_token with a lifetime one unit short
CreateUserTokenShortLived(user_data, t) ==
    JwtEncode([exp |-> t + TokenLifetime - 1, iat |-> t, iss |-> "codepitamah"] @@ user_data,
              secret_key)

\* create_user_token: {**user_data, "exp": ..., "iat": ..., "iss": ...},
\* signed; the three claims replace fields of user_data of the same name.
CreateUserToken(user_data, t) ==
    JwtEncode([exp |-> t + TokenLifetime, iat |-> t, iss |-> "codepitamah"] @@ user_data,
              secret_key)

\* verify_user_token with the check of exp left out (verify_exp off).
VerifyUserTokenIgnoringExp(token, t) ==
    IF ~token.wellformed THEN [ok |-> FALSE, error |-> "Invalid token"]
    ELSE IF token.sig # secret_key THEN [ok |-> FALSE, error |-> "Invalid token"]
    ELSE [ok |-> TRUE, payload |-> token.payload]

\* verify_user_token at instant t: jwt.decode checks the form, then the
\* signature, then exp; each failure is raised as a ValueError.
VerifyUserToken(token, t) ==
    IF ~token.wellformed THEN [ok |-> FALSE, error |-> "Invalid token"]
    ELSE IF token.sig # secret_key THEN [ok |-> FALSE, error |-> "Invalid token"]
    ELSE IF token.payload.exp <= t THEN [ok |-> FALSE, error |-> "Token expired"]
    ELSE [ok |-> TRUE, payload |-> token.payload]

\* json.dumps and json.loads, of dictionaries of strings and numbers
JsonDumps(value) == [json |-> value]

JsonLoads(text) == text.json

\* datetime.isoformat and datetime.fromisoformat
IsoFormat(dt) == <<"iso", dt>>

FromIsoFormat(text) == text[2]

\* datetime.hour
Hour(dt) == dt % DayLength

\* The record track_user_activity pushes.
ActivityData(user_id, activity, metadata, t) ==
    [user_id |-> user_id, activity |-> activity, metadata |-> metadata,
     timestamp |-> IsoFormat(t)]

\* track_user_activity with a retention of one day
TrackUserActivityOneDay(user_id, activity, metadata, store) ==
    LET key == ActivityKey(user_id, Day(now))
    IN  [lists |-> Put(store.lists, key,
                       <<JsonDumps(ActivityData(user_id, activity, metadata, now))>>
                           \o Get(store.lists, key, <<>>)),
         expire_at |-> Put(store.expire_at, key, now + DayLength)]

\* track_user_activity: lpush on the day's list, then expire in 7 days.
\* track_user_activity that enters every analysis as a rate limit violation
TrackUserActivityAsViolation(user_id, activity, metadata, store) ==
    LET key == ActivityKey(user_id, Day(now))
        written == IF activity = "code_analysis" THEN "rate_limit_exceeded" ELSE activity
    IN  [lists |-> Put(store.lists, key,
                       <<JsonDumps(ActivityData(user_id, written, metadata, now))>>
                           \o Get(store.lists, key, <<>>)),
         expire_at |-> Put(store.expire_at, key, now + DayLength * 7)]

TrackUserActivity(user_id, activity, metadata, store) ==
    LET key == ActivityKey(user_id, Day(now))
    IN  [lists |-> Put(store.lists, key,
                       <<JsonDumps(ActivityData(user_id, activity, metadata, now))>>
                           \o Get(store.lists, key, <<>>)),
         expire_at |-> Put(store.expire_at, key, now + DayLength * 7)]

\* The activities of day i before today, as get_user_activity reads them: a
\* RedisError skips the day.
DayActivities(user_id, i) ==
    LET key == ActivityKey(user_id, Day(now - i * DayLength))
    IN  IF redis_up THEN [j \in DOMAIN List(key) |-> JsonLoads(List(key)[j])]
        ELSE <<>>

RECURSIVE GetUserActivityFrom(_, _, _)
\* for i in range(days): ... activities.append(...)
GetUserActivityFrom(user_id, i, days) ==
    IF i >= days THEN <<>>
    ELSE DayActivities(user_id, i) \o GetUserActivityFrom(user_id, i + 1, days)

\* get_user_activity(user_id, days)
GetUserActivity(user_id, days) == GetUserActivityFrom(user_id, 0, days)

\* A score is a double: the double nearest to tenths / 10, moved by ulps
\* units in the last place.  The weights 0.3, 0.4, 0.2 and 0.1 are the
\* doubles nearest to them.
Double(tenths, ulps) == [tenths |-> tenths, ulps |-> ulps]

\* score += weight in double arithmetic, for the sums the function can form:
\* 0.2 + 0.1 = 0.30000000000000004, 0.4 + 0.2 = 0.6000000000000001,
\* 0.6000000000000001 + 0.1 = 0.7000000000000001, 0.7 + 0.1 = 0.7999999999999999,
\* 0.7 + 0.2 = 0.8999999999999999, 0.8999999999999999 + 0.1 = 0.9999999999999999,
\* and the other sums are the doubles nearest to their decimal value.
PlusEq(score, weight) ==
    LET sum == score.tenths + weight
    IN  CASE score = Double(2, 0) /\ weight = 1 -> Double(sum, 1)
          [] score = Double(4, 0) /\ weight = 2 -> Double(sum, 1)
          [] score = Double(6, 1) /\ weight = 1 -> Double(sum, 1)
          [] score = Double(7, 0) /\ weight = 1 -> Double(sum, 0 - 1)
          [] score = Double(7, 0) /\ weight = 2 -> Double(sum, 0 - 1)
          [] score = Double(9, 0 - 1) /\ weight = 1 -> Double(sum, 0 - 1)
          [] OTHER -> Double(sum, 0)

\* a > b for two doubles
Greater(a, b) == a.tenths > b.tenths \/ (a.tenths = b.tenths /\ a.ulps > b.ulps)

\* detect_suspicious_activity without the weight of the request volume
DetectSuspiciousActivityNoVolume(user_id) ==
    LET activities == GetUserActivity(user_id, 1)
        dangerous == {j \in DOMAIN activities :
                         activities[j].activity = "dangerous_code_detected"}
        violations == {j \in DOMAIN activities :
                          activities[j].activity = "rate_limit_exceeded"}
        unusual == {j \in DOMAIN activities :
                       /\ UnusualFrom <= Hour(FromIsoFormat(activities[j].timestamp))
                       /\ Hour(FromIsoFormat(activities[j].timestamp)) <= UnusualTo}
        s1 == Double(0, 0)
        s2 == IF Cardinality(dangerous) > DangerousThreshold THEN PlusEq(s1, 4) ELSE s1
        s3 == IF Cardinality(violations) > ViolationThreshold THEN PlusEq(s2, 2) ELSE s2
        score == IF Cardinality(unusual) > UnusualThreshold THEN PlusEq(s3, 1) ELSE s3
    IN  [suspicious_score |-> score,
         indicators |->
             [high_request_volume |-> Len(activities) > VolumeThreshold,
              dangerous_code_attempts |-> Cardinality(dangerous),
              rate_limit_violations |-> Cardinality(violations),
              unusual_times |-> Cardinality(unusual),
              multiple_ips |->
                  Cardinality({activities[j].metadata.ip_address : j \in DOMAIN activities})],
         recommendation |->
             IF Greater(score, Double(7, 0)) THEN "block_user"
             ELSE IF Greater(score, Double(3, 0)) THEN "monitor"
             ELSE "normal"]

\* detect_suspicious_activity(user_id)
DetectSuspiciousActivity(user_id) ==
    LET activities == GetUserActivity(user_id, 1)
        dangerous == {j \in DOMAIN activities :
                         activities[j].activity = "dangerous_code_detected"}
        violations == {j \in DOMAIN activities :
                          activities[j].activity = "rate_limit_exceeded"}
        unusual == {j \in DOMAIN activities :
                       /\ UnusualFrom <= Hour(FromIsoFormat(activities[j].timestamp))
                       /\ Hour(FromIsoFormat(activities[j].timestamp)) <= UnusualTo}
        s0 == Double(0, 0)
        s1 == IF Len(activities) > VolumeThreshold THEN PlusEq(s0, 3) ELSE s0
        s2 == IF Cardinality(dangerous) > DangerousThreshold THEN PlusEq(s1, 4) ELSE s1
        s3 == IF Cardinality(violations) > ViolationThreshold THEN PlusEq(s2, 2) ELSE s2
        score == IF Cardinality(unusual) > UnusualThreshold THEN PlusEq(s3, 1) ELSE s3
    IN  [suspicious_score |-> score,
         indicators |->
             [high_request_volume |-> Len(activities) > VolumeThreshold,
              dangerous_code_attempts |-> Cardinality(dangerous),
              rate_limit_violations |-> Cardinality(violations),
              unusual_times |-> Cardinality(unusual),
              multiple_ips |->
                  Cardinality({activities[j].metadata.ip_address : j \in DOMAIN activities})],
         recommendation |->
             IF Greater(score, Double(7, 0)) THEN "block_user"
             ELSE IF Greater(score, Double(3, 0)) THEN "monitor"
             ELSE "normal"]

\* ------------------------------------------------------------ CodeAnalyzer
\* The texts submitted.  What the validator, the sanitizer, the parser and
\* the scanners make of each was read off a run of the code on it.
CleanCode == "def f(): return 1"

PaddedCode == "  def f(): return 1\n"

SyntaxErrorCode == "def f(:\n  pass"

SmellyCode == "import time\nasync def g(items):\n    for i in items:\n        time.sleep(1)\n        cursor.execute('select ' + i)\n    cache[i] = 1"

SecretCode == "api_key = 'abc'\nx = 1"

RedactedCode == "# [REDACTED - Contains sensitive information]\nx = 1"

ShoutingCode == "x = 1  # DEF done"

DangerousCode == "import os\nprint('x')"

ConcatLoopCode == "for x in xs:\n    result = result + [x]"

\* a text whose second line does not parse
LateSyntaxErrorCode == "x = 1\ndef f(:\n  pass"

\* a text that does not parse and on which the code smell scanner raises
ShoutingSyntaxErrorCode == "x = (  # DEF done"

\* a function of 21 statements
TwinLongLine ==
    "def f(): pass; pass; pass; pass; pass; pass; pass; pass; pass; pass; pass; pass; pass; pass; pass; pass; pass; pass; pass; pass; pass"

\* two functions of one name, each of 21 statements
TwinLongCode == TwinLongLine \o "\n" \o TwinLongLine

\* the text of LateSyntaxErrorCode after two empty lines
LeadingBlankCode == "\n\nx = 1\ndef f(:\n  pass"

EmptyCode == ""

BlankCode == "  \n"

\* stands for 'x' * (MAX_CODE_SIZE + 1)
OversizeCode == "xxx..."

Codes ==
    {CleanCode, PaddedCode, SyntaxErrorCode, SmellyCode, SecretCode, ShoutingCode,
     ConcatLoopCode, DangerousCode, EmptyCode, BlankCode, OversizeCode}

\* len(v)
CodeLength(code) ==
    CASE code = CleanCode -> 17
      [] code = PaddedCode -> 20
      [] code = SyntaxErrorCode -> 14
      [] code = SmellyCode -> 128
      [] code = SecretCode -> 21
      [] code = RedactedCode -> 51
      [] code = LateSyntaxErrorCode -> 20
      [] code = ShoutingSyntaxErrorCode -> 17
      [] code = TwinLongCode -> 267
      [] code = LeadingBlankCode -> 22
      [] code = ShoutingCode -> 17
      [] code = DangerousCode -> 20
      [] code = ConcatLoopCode -> 38
      [] code = EmptyCode -> 0
      [] code = BlankCode -> 3
      [] code = OversizeCode -> MAX_CODE_SIZE + 1

\* v.strip()
Strip(code) ==
    CASE code = PaddedCode -> CleanCode
      [] code = LeadingBlankCode -> LateSyntaxErrorCode
      [] code = BlankCode -> EmptyCode
      [] OTHER -> code

\* some pattern of COMPILED_DANGEROUS_PATTERNS is found in the text
MatchesDangerousPattern(code) == code = DangerousCode

\* code.split('\n')
Lines(code) ==
    CASE code = CleanCode -> <<"def f(): return 1">>
      [] code = PaddedCode -> <<"  def f(): return 1", "">>
      [] code = SyntaxErrorCode -> <<"def f(:", "  pass">>
      [] code = LateSyntaxErrorCode -> <<"x = 1", "def f(:", "  pass">>
      [] code = LeadingBlankCode -> <<"", "", "x = 1", "def f(:", "  pass">>
      [] code = ShoutingSyntaxErrorCode -> <<"x = (  # DEF done">>
      [] code = SmellyCode ->
            <<"import time", "async def g(items):", "    for i in items:",
              "        time.sleep(1)", "        cursor.execute('select ' + i)",
              "    cache[i] = 1">>
      [] code = SecretCode -> <<"api_key = 'abc'", "x = 1">>
      [] code = RedactedCode -> <<"# [REDACTED - Contains sensitive information]", "x = 1">>
      [] code = ShoutingCode -> <<"x = 1  # DEF done">>
      [] code = DangerousCode -> <<"import os", "print('x')">>
      [] code = ConcatLoopCode -> <<"for x in xs:", "    result = result + [x]">>
      [] code = TwinLongCode -> <<TwinLongLine, TwinLongLine>>
      [] code = EmptyCode -> <<"">>
      [] code = BlankCode -> <<"  ", "">>
      [] OTHER -> <<code>>

\* any(keyword in line.lower() for keyword in ['password', 'secret', 'key',
\* 'token', 'credential'])
HasSensitiveKeyword(line) == line = "api_key = 'abc'"

RECURSIVE JoinLines(_)
\* '\n'.join(lines)
JoinLines(lines) ==
    IF lines = <<>> THEN ""
    ELSE IF Len(lines) = 1 THEN lines[1]
    ELSE lines[1] \o "\n" \o JoinLines(Tail(lines))

\* sanitize_code_for_analysis: every line with a sensitive keyword becomes
\* the redaction comment, the other lines stay, and the lines are joined.
SanitizeCodeForAnalysis(code) ==
    JoinLines([i \in DOMAIN Lines(code) |->
                  IF HasSensitiveKeyword(Lines(code)[i])
                  THEN "# [REDACTED - Contains sensitive information]"
                  ELSE Lines(code)[i]])

\* sanitize_code_for_analysis of the texts, each worked out once.
SanitizedCodes ==
    [code \in Codes \cup {RedactedCode, LateSyntaxErrorCode, ShoutingSyntaxErrorCode,
                          TwinLongCode, LeadingBlankCode} |->
        SanitizeCodeForAnalysis(code)]

\* The scanners of _analyze_python, in the order it runs them.
Detectors ==
    <<"security", "performance", "memory", "code_smell", "async", "api",
      "data_flow", "dependency", "testing", "algorithm">>

DetectorSet == {Detectors[i] : i \in DOMAIN Detectors}

NoFault == "none"

NoRule == ""

CodeIssue(type, message, rule_id, severity, line) ==
    [type |-> type, message |-> message, rule_id |-> rule_id,
     severity |-> severity, line |-> line]

\* len(code.split('\n'))
LineCount(code) ==
    CASE code = SyntaxErrorCode -> 2
      [] code = SmellyCode -> 6
      [] code = RedactedCode -> 2
      [] code = DangerousCode -> 2
      [] code = ConcatLoopCode -> 2
      [] code = LateSyntaxErrorCode -> 3
      [] code = TwinLongCode -> 2
      [] OTHER -> 1

\* ast.parse(code) succeeds
Parses(code) ==
    code \notin {SyntaxErrorCode, LateSyntaxErrorCode, ShoutingSyntaxErrorCode}

\* e.lineno of the SyntaxError ast.parse raises
SyntaxErrorLine(code) ==
    CASE code = SyntaxErrorCode -> 1
      [] code = LateSyntaxErrorCode -> 2
      [] code = ShoutingSyntaxErrorCode -> 1

\* CodeMetrics; maintainability_index and comment_ratio are in tenths.
CodeMetrics(loc, cc, mi, functions, classes, comments) ==
    [lines_of_code |-> loc, cyclomatic_complexity |-> cc, maintainability_index |-> mi,
     function_count |-> functions, class_count |-> classes, comment_ratio |-> comments]

\* _calculate_python_metrics, for the texts that parse
PythonMetrics(code) ==
    CASE code = CleanCode -> CodeMetrics(1, 1, 979, 1, 0, 0)
      [] code = SmellyCode -> CodeMetrics(6, 2, 954, 0, 0, 0)
      [] code = RedactedCode -> CodeMetrics(1, 1, 979, 0, 0, 1000)
      [] code = ShoutingCode -> CodeMetrics(1, 1, 979, 0, 0, 0)
      [] code = DangerousCode -> CodeMetrics(2, 1, 978, 0, 0, 0)
      [] code = ConcatLoopCode -> CodeMetrics(2, 2, 958, 0, 0, 0)
      [] code = TwinLongCode -> CodeMetrics(2, 1, 978, 2, 0, 0)

\* _create_default_metrics
DefaultMetrics(code) == CodeMetrics(LineCount(code), 1, 500, 0, 0, 0)

\* How the bandit child process ends: it cannot be started or read (an
\* exception), it exits 0 with no results, it exits 1.
BanditOutcomes == {"raises", "exit0", "exit1"}

\* The bandit half of _run_bandit_analysis: results are read only after exit
\* code 0, and an exception leaves the one generic issue.
BanditIssues(code, bandit) ==
    IF bandit = "raises"
    THEN <<CodeIssue("info", "Consider running security analysis", NoRule, "low", 1)>>
    ELSE <<>>

\* What each scanner returns for the text.
Findings(d, code) ==
    CASE d = "security" /\ code = SmellyCode ->
            <<CodeIssue("vulnerability", "sql injection", "SEC_SQL_INJECTION", "high", 5)>>
      [] d = "async" /\ code = SmellyCode ->
            <<CodeIssue("async_antipattern", "time.sleep() blocks event loop",
                        "ASYNC_BLOCKING_SLEEP", "critical", 4)>>
      [] d = "data_flow" /\ code = SmellyCode ->
            <<CodeIssue("data_flow", "database without sanitization",
                        "DATA_DB_WITHOUT_SANITIZATION", "high", 5)>>
      [] d = "dependency" /\ code \in {SmellyCode, DangerousCode} ->
            <<CodeIssue("dependency", "missing dependency management",
                        "DEP_MISSING_MANAGEMENT", "low", 1)>>
      [] d = "algorithm" /\ code = SmellyCode ->
            <<CodeIssue("algorithm_efficiency", "database query in loop",
                        "ALG_DB_QUERY", "high", 5)>>
      [] d = "performance" /\ code = ConcatLoopCode ->
            <<CodeIssue("performance_issue", "string concatenation in loop",
                        "PERF_STRING_CONCAT_LOOP", "medium", 2)>>
      [] d = "algorithm" /\ code = ConcatLoopCode ->
            <<CodeIssue("algorithm_efficiency", "list concatenation in loop",
                        "PERF_LIST_CONCAT_IN_LOOP", "medium", 2)>>
      [] d = "testing" /\ code = LateSyntaxErrorCode ->
            <<CodeIssue("testing", "missing error handling test",
                        "TEST_MISSING_ERROR_HANDLING", "low", 2),
              CodeIssue("testing", "missing function test",
                        "TEST_MISSING_FUNCTION_TEST", "medium", 2)>>
      [] d = "testing" /\ code = TwinLongCode ->
            <<CodeIssue("testing", "missing error handling test",
                        "TEST_MISSING_ERROR_HANDLING", "low", 1),
              CodeIssue("testing", "missing error handling test",
                        "TEST_MISSING_ERROR_HANDLING", "low", 2),
              CodeIssue("testing", "missing function test",
                        "TEST_MISSING_FUNCTION_TEST", "medium", 1),
              CodeIssue("testing", "missing function test",
                        "TEST_MISSING_FUNCTION_TEST", "medium", 2)>>
      [] d = "testing" /\ code \in {CleanCode, SyntaxErrorCode} ->
            <<CodeIssue("testing", "missing error handling test",
                        "TEST_MISSING_ERROR_HANDLING", "low", 1),
              CodeIssue("testing", "missing function test",
                        "TEST_MISSING_FUNCTION_TEST", "medium", 1)>>
      [] OTHER -> <<>>

\* Scanner d raises on the text: _analyze_code_smells takes
\* line.split('def ')[1] of a line whose lower-cased form holds 'def '.
Raises(d, code) == d = "code_smell" /\ code \in {ShoutingCode, ShoutingSyntaxErrorCode}

\* The list _analyze_python fills for scanner d.
CategoryIssues(d, code, bandit) ==
    IF d = "security" THEN BanditIssues(code, bandit) \o Findings(d, code)
    ELSE Findings(d, code)

\* The rule ids each _generate_<category>_suggestions tests, in its order,
\* with the string it appends for each.
CanonicalSuggestions ==
    [
     memory |->
        <<
          <<"MEM_CACHE_GROWTH",
            "Implement LRU cache with size limits or TTL to prevent unbounded growth">>,
          <<"MEM_EVENT_HANDLERS",
            "Remove unused event handlers periodically to prevent memory accumulation">>,
          <<"MEM_LARGE_DATASETS",
            "Implement data cleanup strategy with TTL or size-based eviction">>,
          <<"MEM_GLOBAL_GROWTH",
            "Use bounded data structures or implement cleanup mechanisms for global variables">>,
          <<"MEM_LARGE_OBJECTS",
            "Cache or reuse large data structures instead of creating them repeatedly">>,
          <<"MEM_CLOSURE_CAPTURE",
            "Avoid capturing large objects in closures - use weak references or explicit cleanup">>,
          <<"MEM_CACHE_NO_LIMITS",
            "Use functools.lru_cache or implement custom cache with size limits">>,
          <<"MEM_LIST_ACCUMULATION",
            "Implement list rotation, size limits, or periodic cleanup for accumulating lists">>,
          <<"MEM_FILE_HANDLE_LEAK",
            "Use context managers (with open()) or ensure file.close() is called">>,
          <<"MEM_CIRCULAR_REFERENCE",
            "Break circular references using weak references or explicit cleanup">>,
          <<"MEM_SESSION_ACCUMULATION",
            "Implement session expiration, cleanup, or use bounded session storage">>,
          <<"MEM_INSTANCE_COLLECTION",
            "Avoid storing all instances - use weak references or remove instances when done">>,
          <<"MEM_TEMP_STORAGE_LEAK",
            "Clear temporary storage periodically or use bounded temporary storage">>,
          <<"MEM_REQUEST_HISTORY_GROWTH",
            "Implement request history rotation, size limits, or log to external storage">>,
          <<"MEM_BACKGROUND_TASK_ACCUMULATION",
            "Clean up completed background tasks or use bounded task queues">>
        >>,
     code_smell |->
        <<
          <<"SMELL_GOD_OBJECT",
            "Split god objects into smaller, focused classes with single responsibilities">>,
          <<"SMELL_LONG_PARAMETER_LIST",
            "Use data classes, configuration objects, or builder pattern for long parameter lists">>,
          <<"SMELL_MAGIC_NUMBER",
            "Replace magic numbers with named constants for better readability and maintainability">>,
          <<"SMELL_COMPLEX_CONDITIONAL",
            "Extract complex conditionals into separate methods or use early returns">>,
          <<"SMELL_DUPLICATE_CODE",
            "Extract duplicate code into common functions or utility classes">>,
          <<"SMELL_LONG_METHOD",
            "Break long methods into smaller, focused functions">>,
          <<"SMELL_DEAD_CODE",
            "Remove unused code to improve maintainability and reduce complexity">>,
          <<"SMELL_INCONSISTENT_NAMING",
            "Use consistent naming conventions throughout the codebase">>
        >>,
     async |->
        <<
          <<"ASYNC_BLOCKING_SLEEP",
            "Replace time.sleep() with await asyncio.sleep() in async functions">>,
          <<"ASYNC_SEQUENTIAL_OPERATIONS",
            "Use asyncio.gather() to run async operations concurrently instead of sequentially">>,
          <<"ASYNC_SESSION_CREATION",
            "Create aiohttp.ClientSession once and reuse across requests for better performance">>,
          <<"ASYNC_GATHER_NO_EXCEPTIONS",
            "Add return_exceptions=True to asyncio.gather() to handle individual task failures">>,
          <<"ASYNC_CPU_BOUND_WORK",
            "Use asyncio.create_task() or run_in_executor() for CPU-bound work in async functions">>,
          <<"ASYNC_MISSING_AWAIT",
            "Add await keyword when calling async functions to avoid returning coroutine objects">>,
          <<"ASYNC_BLOCKING_IO",
            "Use async alternatives (aiohttp, aiofiles) instead of blocking I/O in async functions">>,
          <<"ASYNC_RACE_CONDITION",
            "Use asyncio.Lock() or other synchronization primitives to prevent race conditions">>,
          <<"ASYNC_LOCK_WITHOUT_CONTEXT",
            "Use async with statement for asyncio locks to prevent deadlocks">>
        >>,
     api |->
        <<
          <<"API_GET_MUTATION",
            "Use proper HTTP methods - GET for reading, POST/PUT/DELETE for mutations">>,
          <<"API_MISSING_ERROR_HANDLING",
            "Add comprehensive error handling with try/except blocks and proper HTTP status codes">>,
          <<"API_VERB_IN_URL",
            "Use resource-based URLs instead of HTTP verbs in endpoint paths">>,
          <<"API_INCONSISTENT_NAMING",
            "Use consistent URL naming conventions (kebab-case or camelCase)">>,
          <<"API_MISSING_VERSIONING",
            "Implement API versioning with /v1/, /v2/ prefixes for backward compatibility">>,
          <<"API_MISSING_VALIDATION",
            "Add input validation using Pydantic, Marshmallow, or similar schema validation">>,
          <<"API_MISSING_AUTH",
            "Implement authentication and authorization using JWT, OAuth, or similar mechanisms">>,
          <<"API_MISSING_RATE_LIMITING",
            "Add rate limiting to prevent API abuse and ensure fair usage">>,
          <<"API_MISSING_CORS",
            "Configure CORS headers for cross-origin requests">>,
          <<"API_MISSING_HEADERS",
            "Set proper response headers including Content-Type and custom headers">>,
          <<"API_MISSING_PAGINATION",
            "Implement pagination for list endpoints to handle large datasets efficiently">>,
          <<"API_MISSING_DOCUMENTATION",
            "Add comprehensive API documentation using OpenAPI/Swagger or docstrings">>
        >>,
     data_flow |->
        <<
          <<"DATA_SENSITIVE_IN_LOGS",
            "Remove or mask sensitive data from logs - use logging filters or data masking">>,
          <<"DATA_UNVALIDATED_INPUT",
            "Add input validation and sanitization for all external data sources">>,
          <<"DATA_SENSITIVE_IN_RESPONSE",
            "Filter out sensitive fields from API responses - use response serializers">>,
          <<"DATA_UNENCRYPTED_TRANSMISSION",
            "Use HTTPS/SSL for all data transmission - encrypt sensitive data in transit">>,
          <<"DATA_UNENCRYPTED_STORAGE",
            "Encrypt sensitive data before storage - use proper encryption algorithms">>,
          <<"DATA_EXTERNAL_WITHOUT_VALIDATION",
            "Validate data before sending to external services - implement data whitelisting">>,
          <<"DATA_FILE_WITHOUT_VALIDATION",
            "Validate file content before processing - check file types and content integrity">>,
          <<"DATA_DB_WITHOUT_SANITIZATION",
            "Use parameterized queries and input sanitization for database operations">>,
          <<"DATA_SENSITIVE_GLOBAL",
            "Use secure storage mechanisms instead of global variables for sensitive data">>,
          <<"DATA_SENSITIVE_ENV",
            "Ensure proper access controls for environment variables containing sensitive data">>,
          <<"DATA_SENSITIVE_TEMP",
            "Ensure proper cleanup and permissions for temporary files with sensitive data">>,
          <<"DATA_SENSITIVE_CACHE_NO_EXPIRY",
            "Set appropriate TTL for cached sensitive data - implement cache expiration">>
        >>,
     dependency |->
        <<
          <<"DEP_VULNERABLE_PACKAGE",
            "Update vulnerable packages to latest secure versions - check CVE database">>,
          <<"DEP_VULNERABLE_IMPORT",
            "Review and update vulnerable package imports - use security scanning tools">>,
          <<"DEP_HARDCODED_VERSION",
            "Use version ranges instead of hardcoded versions for better flexibility">>,
          <<"DEP_DEV_IN_PROD",
            "Separate development and production dependencies - use requirements-dev.txt">>,
          <<"DEP_LICENSE_ISSUE",
            "Review package licenses for compliance - use license scanning tools">>,
          <<"DEP_MISSING_MANAGEMENT",
            "Implement proper dependency management with requirements.txt or pyproject.toml">>,
          <<"DEP_PYTHON2_COMPAT",
            "Migrate from Python 2 compatibility packages to Python 3 native alternatives">>,
          <<"DEP_INSECURE_SOURCE",
            "Use HTTPS package sources and verify package integrity">>,
          <<"DEP_SKIP_UPDATES",
            "Enable automatic security updates and dependency scanning">>,
          <<"DEP_PINNED_VERSION",
            "Use version ranges for security updates while maintaining stability">>
        >>,
     testing |->
        <<
          <<"TEST_UNTESTABLE_CODE",
            "Make code testable by using dependency injection and configuration">>,
          <<"TEST_HARDCODED_VALUES",
            "Replace hardcoded values with configuration or environment variables">>,
          <<"TEST_MISSING_ERROR_HANDLING",
            "Add error handling to functions for better testability">>,
          <<"TEST_ANTI_PATTERN",
            "Use meaningful assertions instead of assert True/False">>,
          <<"TEST_MISSING_DOCUMENTATION",
            "Add docstrings to test functions explaining their purpose">>,
          <<"TEST_ISOLATION_ISSUE",
            "Avoid global variables in tests - use proper test isolation">>,
          <<"TEST_MISSING_SETUP",
            "Add proper test setup and teardown methods">>,
          <<"TEST_HARDCODED_DATA",
            "Use test fixtures or factories instead of hardcoded test data">>,
          <<"TEST_CRITICAL_FUNCTION",
            "Add comprehensive test coverage for critical functions">>,
          <<"TEST_PERFORMANCE_ISSUE",
            "Use mocks or stubs for external dependencies in tests">>,
          <<"TEST_MISSING_INTEGRATION",
            "Add integration tests for external dependencies">>,
          <<"TEST_MISSING_FUNCTION_TEST",
            "Add unit tests for all functions">>,
          <<"TEST_MISSING_CLASS_TEST",
            "Add unit tests for all classes">>
        >>,
     algorithm |->
        <<
          <<"ALG_EXPONENTIAL",
            "Use memoization (@lru_cache) or iterative approach to avoid exponential time complexity">>,
          <<"ALG_O2_SORTING",
            "Replace manual sorting algorithms with built-in sorted() for O(n log n) complexity">>,
          <<"ALG_O2_DUPLICATE",
            "Use set() for duplicate detection instead of nested loops for O(n) complexity">>,
          <<"ALG_O2_NESTED_LOOP",
            "Optimize nested loops - consider using built-in functions or data structures">>,
          <<"ALG_LINEAR_SEARCH",
            "Use binary search for sorted data or consider using set/dict for O(1) lookups">>,
          <<"ALG_INEFFICIENT_CONCAT",
            "Use list.extend() or += operator instead of + for list concatenation">>,
          <<"ALG_MANUAL_SORT",
            "Use built-in sorting functions instead of implementing manual algorithms">>,
          <<"ALG_STRING_CONCAT",
            "Use str.join() instead of string concatenation in loops">>,
          <<"ALG_DICT_LOOKUP",
            "Pre-compute dictionary lookups or use defaultdict for better performance">>,
          <<"ALG_NESTED_COMPREHENSION",
            "Flatten nested comprehensions or use itertools.chain for better readability">>,
          <<"ALG_FILE_READ",
            "Read entire file once instead of reading in loops">>,
          <<"ALG_DB_QUERY",
            "Use bulk operations, joins, or batch processing for database queries">>,
          <<"ALG_NETWORK_REQUEST",
            "Use connection pooling, async requests, or batch API calls">>,
          <<"ALG_OBJECT_COPY",
            "Reuse objects or use shallow copies instead of deep copying in loops">>,
          <<"ALG_REGEX_COMPILE",
            "Compile regex patterns once outside the loop for better performance">>,
          <<"ALG_MANUAL_GROUPING",
            "Use collections.defaultdict(list) instead of manual grouping for better performance">>,
          <<"ALG_EXPONENTIAL_RECURSION",
            "Use @lru_cache decorator or iterative approach for exponential recursion to achieve O(n) complexity">>,
          <<"ALG_NESTED_EQUALITY_DUPSCAN",
            "Use set-based duplicate detection instead of nested loops for O(n) complexity">>,
          <<"PERF_LIST_CONCAT_IN_LOOP",
            "Use list.append() or list.extend() instead of concatenation in loops for better performance">>
        >>
    ]

\* The categories whose findings a generator reads, in the order
\* _analyze_python calls the generators.
SuggestionCategories ==
    <<"memory", "code_smell", "async", "api", "data_flow", "dependency", "testing",
      "algorithm">>

\* any(issue.rule_id == rule_id for issue in issues)
AnyRule(issues, rule_id) == \E i \in DOMAIN issues : issues[i].rule_id = rule_id

\* One if any(...): suggestions.append(...) after the other, in the order of
\* the table: the texts of the entries whose rule some issue carries.
AppendMatched(table, issues) ==
    LET Matched(entry) == AnyRule(issues, entry[1])
        matched == SelectSeq(table, Matched)
    IN  [i \in DOMAIN matched |-> matched[i][2]]

\* _generate_<category>_suggestions(issues)
GenerateCategorySuggestions(d, issues) == AppendMatched(CanonicalSuggestions[d], issues)

\* The names of the FunctionDef nodes ast.walk meets that have neither a
\* return annotation nor a plainly named argument annotation, and of those
\* whose body has more than 20 statements.
FunctionsWithoutHints(code) ==
    CASE code = CleanCode -> <<"f">>
      [] code = TwinLongCode -> <<"f", "f">>
      [] OTHER -> <<>>

LongFunctions(code) ==
    CASE code = TwinLongCode -> <<"f", "f">>
      [] OTHER -> <<>>

RECURSIVE Join(_)
\* ', '.join(names)
Join(names) ==
    IF names = <<>> THEN ""
    ELSE IF Len(names) = 1 THEN names[1]
    ELSE names[1] \o ", " \o Join(Tail(names))

\* names[:3]
FirstThree(names) == SubSeq(names, 1, IF Len(names) < 3 THEN Len(names) ELSE 3)

\* _generate_ast_suggestions: one string for the functions without hints,
\* then one for every long function.
GenerateAstSuggestions(code) ==
    (IF FunctionsWithoutHints(code) # <<>>
     THEN <<"Consider adding type hints to functions: "
                \o Join(FirstThree(FunctionsWithoutHints(code)))>>
     ELSE <<>>)
        \o [i \in DOMAIN LongFunctions(code) |->
               "Function '" \o LongFunctions(code)[i]
                   \o "' is quite long - consider breaking it into smaller functions"]

\* The substrings _generate_general_suggestions looks for: 'def ', a
\* triple quote, 'try:' or 'except', a run [A-Z_]{3,}, requests.get( or
\* requests.post(.
HasDef(code) ==
    code \in {CleanCode, SyntaxErrorCode, LateSyntaxErrorCode, SmellyCode, TwinLongCode}

HasTripleQuote(code) == FALSE

HasErrorHandling(code) == FALSE

HasUpperCaseRun(code) == code \in {RedactedCode, ShoutingCode, ShoutingSyntaxErrorCode}

HasRequestsCall(code) == FALSE

\* _generate_general_suggestions
GenerateGeneralSuggestions(code) ==
    (IF HasDef(code) /\ ~HasTripleQuote(code)
     THEN <<"Consider adding docstrings to your functions">> ELSE <<>>)
        \o (IF HasDef(code) /\ ~HasErrorHandling(code)
            THEN <<"Consider adding error handling to your functions">> ELSE <<>>)
        \o (IF HasUpperCaseRun(code)
            THEN <<"Consider using constants for magic numbers and strings">> ELSE <<>>)
        \o (IF HasRequestsCall(code)
            THEN <<"Consider using async/await with httpx for better concurrency">>
            ELSE <<>>)

RECURSIVE GenerateFrom(_, _)
\* The generators of the categories from the i-th on, one after the other.
GenerateFrom(categories, i) ==
    IF i > Len(SuggestionCategories) THEN <<>>
    ELSE GenerateCategorySuggestions(SuggestionCategories[i],
                                     categories[SuggestionCategories[i]])
             \o GenerateFrom(categories, i + 1)

\* The suggestions of _analyze_python: those of the syntax tree if the text
\* parsed, the general ones, then those of the eight generators; the list
\* is extended and never searched.
GenerateSuggestions(code, categories) ==
    (IF Parses(code) THEN GenerateAstSuggestions(code) ELSE <<>>)
        \o GenerateGeneralSuggestions(code)
        \o GenerateFrom(categories, 1)

AnalysisResult(language, metrics, issues, suggestions, categories) ==
    [language |-> language, metrics |-> metrics, issues |-> issues,
     suggestions |-> suggestions, categories |-> categories]

NoFindings == [d \in DetectorSet |-> <<>>]

\* _create_error_result
CreateErrorResult ==
    AnalysisResult("unknown", DefaultMetrics(EmptyCode),
                   <<CodeIssue("error", "Analysis failed", NoRule, "high", 1)>>,
                   <<"Please check your code syntax and try again">>, NoFindings)

\* _analyze_python: parse, fall back on a SyntaxError, run the ten scanners
\* one after the other.  A scanner raises on a text it cannot handle, or
\* when fault names it (an exception from its environment); the exception
\* leaves _analyze_python.
AnalyzePython(code, fault, bandit) ==
    IF \E d \in DetectorSet : d = fault \/ Raises(d, code)
    THEN [raised |-> TRUE]
    ELSE [raised |-> FALSE,
          result |->
              AnalysisResult(
                  "python",
                  IF Parses(code) THEN PythonMetrics(code) ELSE DefaultMetrics(code),
                  IF Parses(code) THEN <<>>
                  ELSE <<CodeIssue("error", "Syntax error", NoRule, "high",
                                   SyntaxErrorLine(code))>>,
                  GenerateSuggestions(code,
                                      [d \in DetectorSet |-> CategoryIssues(d, code, bandit)]),
                  [d \in DetectorSet |-> CategoryIssues(d, code, bandit)])]

\* _analyze_generic, for texts without blank lines, 'function', 'class',
\* TODO or FIXME
AnalyzeGeneric(code, language) ==
    [raised |-> FALSE,
     result |-> AnalysisResult(
                    language, CodeMetrics(LineCount(code), 1, 750, 0, 0, 100), <<>>,
                    IF CodeLength(code) > 1000
                    THEN <<"Consider breaking this code into smaller, more manageable pieces">>
                    ELSE <<>>,
                    NoFindings)]

\* The texts _analyze_python is called with.
AnalyzedCodes ==
    {CleanCode, SyntaxErrorCode, LateSyntaxErrorCode, ShoutingSyntaxErrorCode, SmellyCode,
     RedactedCode, ShoutingCode, DangerousCode, ConcatLoopCode, TwinLongCode}

\* The results of _analyze_python for these texts, each worked out once.
PythonAnalyses ==
    [code \in AnalyzedCodes, fault \in DetectorSet \cup {NoFault},
     bandit \in BanditOutcomes |-> AnalyzePython(code, fault, bandit)]

\* CodeAnalyzer.analyze_code: any exception becomes the error result.
AnalyzerAnalyzeCode(code, language, fault, bandit) ==
    LET r == IF language = "python" THEN PythonAnalyses[code, fault, bandit]
             ELSE AnalyzeGeneric(code, language)
    IN  IF r.raised THEN CreateErrorResult ELSE r.result

\* The offsets, in seconds from its start, at which analyze_code is suspended
\* on the event loop: it awaits only coroutines of its own that run to their
\* end (the bandit child is waited for with the blocking subprocess.run).
AwaitPoints == {}

\* asyncio.wait_for(coro, timeout): the timer can stop the coroutine only
\* where it is suspended; a coroutine that runs through the deadline returns
\* its result.
WaitFor(elapsed, timeout) ==
    IF \E y \in AwaitPoints : timeout <= y /\ y < elapsed THEN "TimeoutError" ELSE "result"

\* ------------------------------------------------- codepitamah_enhanced API
\* HTTPBearer(auto_error=False): no Authorization header, or a bearer token.
NoCredentials == [scheme |-> "none"]

Bearer(token) == [scheme |-> "Bearer", credentials |-> token]

NoUser == [authenticated |-> FALSE]

\* get_current_user: no credentials, or a token verify_user_token refuses,
\* give None.
GetCurrentUser(credentials, t) ==
    IF credentials.scheme = "none" THEN NoUser
    ELSE LET v == VerifyUserToken(credentials.credentials, t)
         IN  IF v.ok THEN [authenticated |-> TRUE, data |-> v.payload] ELSE NoUser

\* validate_language: v.lower()
Lower(language) ==
    CASE language = "Python" -> "python"
      [] language = "JavaScript" -> "javascript"
      [] OTHER -> language

allowed_languages == {"python", "javascript", "typescript", "java", "cpp", "csharp"}

allowed_plans == {"free", "pro", "enterprise"}

\* validate_code without the search for dangerous patterns
ValidateCodeWithoutDenylist(code) ==
    IF code = EmptyCode \/ Strip(code) = EmptyCode
    THEN [ok |-> FALSE, error |-> "Code cannot be empty"]
    ELSE IF CodeLength(code) > MAX_CODE_SIZE
    THEN [ok |-> FALSE, error |-> "Code size exceeds maximum limit"]
    ELSE [ok |-> TRUE, value |-> Strip(code)]

\* CodeAnalysisRequest: the validators of code and language.  A ValueError of
\* a validator is answered by the framework before the handler runs.
ValidateCode(code) ==
    IF code = EmptyCode \/ Strip(code) = EmptyCode
    THEN [ok |-> FALSE, error |-> "Code cannot be empty"]
    ELSE IF CodeLength(code) > MAX_CODE_SIZE
    THEN [ok |-> FALSE, error |-> "Code size exceeds maximum limit"]
    ELSE IF MatchesDangerousPattern(code)
    THEN [ok |-> FALSE, error |-> "Code contains potentially dangerous operations"]
    ELSE [ok |-> TRUE, value |-> Strip(code)]

ValidateLanguage(language) ==
    IF Lower(language) \in allowed_languages
    THEN [ok |-> TRUE, value |-> Lower(language)]
    ELSE [ok |-> FALSE, error |-> "Language must be one of"]

\* UserRegistrationRequest.validate_plan
ValidatePlan(plan) == plan \in allowed_plans

NoResult == [none |-> TRUE]

\* Response with every failure answered under status 200
ResponseAlwaysOk(status_code, data) == [status |-> 200, data |-> data]

Response(status_code, data) == [status |-> status_code, data |-> data]

\* What register_user does in the state it is called in: the response, the
\* store after it and the token it hands out, if any.
RegisterUser(client_ip, email, subscription_plan) ==
    LET rl == CheckRateLimit(client_ip, "ip", "anonymous")
        user_data == [user_id |-> UserId(now, email), email |-> email,
                      subscription_plan |-> subscription_plan, created_at |-> now]
        token == CreateUserToken(user_data, now)
        tracked == TrackUserActivity(user_data.user_id, "user_registration",
                                     [ip_address |-> client_ip, plan |-> subscription_plan],
                                     [lists |-> lists, expire_at |-> rl.expire_at])
        failed == [response |-> Response(500, [detail |-> "Registration failed"]),
                   rate_limit_result |-> rl.result,
                   zsets |-> rl.zsets, lists |-> lists, expire_at |-> rl.expire_at,
                   tokens |-> {}]
    IN  IF ~rl.result.allowed
        THEN failed     \* the HTTPException(429) is caught by except Exception
        ELSE IF ~redis_up
        THEN failed     \* lpush raises RedisError
        ELSE [response |->
                  Response(200, [token |-> token, user |-> user_data,
                                 rate_limits |->
                                     [requests_per_minute |-> Limits(subscription_plan).requests,
                                      window_seconds |-> Limits(subscription_plan).window]]),
              rate_limit_result |-> rl.result,
              zsets |-> rl.zsets, lists |-> tracked.lists, expire_at |-> tracked.expire_at,
              tokens |-> {token}]

RECURSIVE Flatten(_, _)
\* result.security_issues + result.performance_issues + ... in Detectors order
Flatten(categories, i) ==
    IF i > Len(Detectors) THEN <<>>
    ELSE categories[Detectors[i]] \o Flatten(categories, i + 1)

Max(a, b) == IF a >= b THEN a ELSE b

\* sum(1 for issue in issues if issue.severity == 'critical')
CountCritical(issues) ==
    Cardinality({i \in DOMAIN issues : issues[i].severity = "critical"})

\* sum(1 for issue in issues if issue.rule_id == 'PERF_N_PLUS_ONE_QUERY')
CountNPlusOne(issues) ==
    Cardinality({i \in DOMAIN issues : issues[i].rule_id = "PERF_N_PLUS_ONE_QUERY"})

\* The API response format of an analysis result.
AnalysisResponse(result, rate_limit_result, user_plan) ==
    [language |-> result.language,
     complexity |-> result.metrics.cyclomatic_complexity,
     maintainability |-> result.metrics.maintainability_index,
     securityScore |->
         Max(0, 100 - Len(result.categories["security"]) * 15
                    - CountCritical(result.categories["security"]) * 25),
     performanceScore |->
         Max(0, 100 - Len(result.categories["performance"]) * 8
                    - Len(result.categories["memory"]) * 8
                    - CountNPlusOne(result.categories["performance"]) * 20),
     issues |-> result.issues \o Flatten(result.categories, 1),
     suggestions |-> result.suggestions,
     metrics |-> result.metrics,
     rate_limit_info |-> [remaining_requests |-> rate_limit_result.remaining,
                          reset_time |-> rate_limit_result.reset_time,
                          plan |-> user_plan]]

\* What the analyze handler does in the state it is called in, for a body
\* that passed validation: the response and the store after it.  The
\* analysis runs for elapsed seconds; fault and bandit say how the scanners
\* and the bandit child behave during it.
AnalyzeCode(client_ip, credentials, code, language, elapsed, fault, bandit) ==
    LET current_user == GetCurrentUser(credentials, now)
        by_user == current_user.authenticated
        user_id == IF by_user THEN current_user.data.user_id ELSE <<>>
        user_plan == IF by_user THEN current_user.data.subscription_plan ELSE "anonymous"
        rl == IF by_user THEN CheckRateLimit(user_id, "user", user_plan)
              ELSE CheckRateLimit(client_ip, "ip", "anonymous")
        tracked == TrackUserActivity(user_id, "code_analysis",
                                     [ip_address |-> client_ip, language |-> language,
                                      code_length |-> CodeLength(code), plan |-> user_plan],
                                     [lists |-> lists, expire_at |-> rl.expire_at])
        sanitized_code == SanitizedCodes[code]
        result == AnalyzerAnalyzeCode(sanitized_code, language, fault, bandit)
        after_check == [zsets |-> rl.zsets, lists |-> lists, expire_at |-> rl.expire_at]
        after_track == IF by_user
                       THEN [zsets |-> rl.zsets, lists |-> tracked.lists,
                             expire_at |-> tracked.expire_at]
                       ELSE after_check
    IN  IF ~rl.result.allowed
        THEN [response |->
                  Response(429, [error |-> "Rate limit exceeded",
                                 limit |-> rl.result.limit,
                                 remaining |-> rl.result.remaining,
                                 reset_time |-> rl.result.reset_time,
                                 plan |-> user_plan]),
              user |-> current_user, rate_limit_result |-> rl.result,
              analyzed |-> FALSE, store |-> after_check]
        ELSE IF by_user /\ ~redis_up
        THEN [response |->      \* lpush raises RedisError: except Exception
                  Response(500, [detail |-> "Analysis failed due to an internal error"]),
              user |-> current_user, rate_limit_result |-> rl.result,
              analyzed |-> FALSE, store |-> after_check]
        ELSE IF WaitFor(elapsed, MAX_ANALYSIS_TIME) = "TimeoutError"
        THEN [response |-> Response(408, [detail |-> "Analysis timeout"]),
              user |-> current_user, rate_limit_result |-> rl.result,
              analyzed |-> TRUE, store |-> after_track]
        ELSE [response |-> Response(200, AnalysisResponse(result, rl.result, user_plan)),
              user |-> current_user, rate_limit_result |-> rl.result,
              analyzed |-> TRUE, store |-> after_track]

\* The request bodies sent to /analyze: each text as Python with a short
\* analysis and bandit missing, and around that each of the other inputs
\* varied on its own.
Body(code, language, elapsed, fault, bandit) ==
    [code |-> code, language |-> language, elapsed |-> elapsed,
     fault |-> fault, bandit |-> bandit]

\* The scanners a request makes fail: the first and the last that run.
FaultyDetectors == {Detectors[1], Detectors[Len(Detectors)]}

Bodies ==
    {Body(c, "Python", 1, NoFault, "raises") : c \in Codes}
        \cup {Body(CleanCode, l, 1, NoFault, "raises") : l \in {"JavaScript", "cobol"}}
        \cup {Body(CleanCode, "Python", MAX_ANALYSIS_TIME + 1, NoFault, "raises")}
        \cup {Body(SmellyCode, "Python", 1, d, "raises") : d \in FaultyDetectors}
        \cup {Body(CleanCode, "Python", 1, NoFault, b) : b \in BanditOutcomes}

\* A token nobody issued: a payload of the sender's choosing under a key of
\* the sender's, and a string that is no token at all.
ForgedToken ==
    JwtEncode([user_id |-> UserId(0, "mallory@example.com"), email |-> "mallory@example.com",
               subscription_plan |-> "enterprise", created_at |-> 0,
               exp |-> MaxClock + TokenLifetime, iat |-> 0, iss |-> "codepitamah"],
              "some-other-key")

GarbageToken == [ForgedToken EXCEPT !.wellformed = FALSE]

\* What a caller can put in the Authorization header.
Presentable ==
    {NoCredentials} \cup {Bearer(tok) : tok \in issued \cup {ForgedToken, GarbageToken}}

\* The bodies sent along with a token.
TokenBodies == {Body(c, "Python", 1, NoFault, "raises") : c \in {CleanCode, DangerousCode}}

\* The requests sent to /analyze: every body without a token, and every
\* Authorization header with the bodies of TokenBodies.
AnalyzeRequests ==
    {[credentials |-> NoCredentials, body |-> body] : body \in Bodies}
        \cup [credentials : Presentable, body : TokenBodies]

\* The request a handler served, when and with the store in which condition,
\* and what came of it.
Served(endpoint, client_ip, credentials, body, outcome) ==
    [endpoint |-> endpoint, client_ip |-> client_ip, credentials |-> credentials,
     body |-> body, t |-> now, store_up |-> redis_up, validated |-> outcome.validated,
     user |-> outcome.user, rate_limit_result |-> outcome.rate_limit_result,
     analyzed |-> outcome.analyzed, response |-> outcome.response]

\* The framework's answer to a body its validators refuse.
Unprocessable(user, detail) ==
    [validated |-> FALSE, user |-> user, rate_limit_result |-> NoResult,
     analyzed |-> FALSE, response |-> Response(422, [detail |-> detail])]

\* POST /register, as one of at most max requests
RegisterWithin(max, client_ip, email, subscription_plan) ==
    /\ call = [p \in Procs |-> Idle]
    /\ nreq < max
    /\ Cardinality(issued) < MaxUsers
    /\ nreq' = nreq + 1
    /\ \E r \in {RegisterUser(client_ip, email, subscription_plan)} :
           IF ~ValidatePlan(subscription_plan)
           THEN /\ http' = Served("register", client_ip, NoCredentials,
                                  [email |-> email, subscription_plan |-> subscription_plan],
                                  Unprocessable(NoUser, "Plan must be one of"))
                /\ UNCHANGED <<store_vars, issued>>
           ELSE /\ http' = Served("register", client_ip, NoCredentials,
                                  [email |-> email, subscription_plan |-> subscription_plan],
                                  [validated |-> TRUE, user |-> NoUser,
                                   rate_limit_result |-> r.rate_limit_result,
                                   analyzed |-> FALSE, response |-> r.response])
                /\ zsets' = r.zsets
                /\ lists' = r.lists
                /\ expire_at' = r.expire_at
                /\ issued' = issued \cup r.tokens
    /\ UNCHANGED <<now, redis_up, outages, limiter_vars, mounted_vars, ledger_vars, admin_vars,
                  socket_vars, analyzer_vars>>

\* POST /register
Register(client_ip, email, subscription_plan) ==
    RegisterWithin(MaxRequests, client_ip, email, subscription_plan)

\* POST /analyze, as one of at most max requests
AnalyzeWithin(max, client_ip, request) ==
    /\ call = [p \in Procs |-> Idle]
    /\ nreq < max
    /\ nreq' = nreq + 1
    /\ \E credentials \in {request.credentials}, body \in {request.body},
          code \in {ValidateCode(request.body.code)},
          language \in {ValidateLanguage(request.body.language)} :
           IF ~code.ok \/ ~language.ok
           THEN /\ http' = Served("analyze", client_ip, credentials, body,
                                  Unprocessable(GetCurrentUser(credentials, now),
                                                IF ~code.ok THEN code.error
                                                ELSE language.error))
                /\ UNCHANGED store_vars
           ELSE \E r \in {AnalyzeCode(client_ip, credentials, code.value, language.value,
                                      body.elapsed, body.fault, body.bandit)} :
                    /\ http' = Served("analyze", client_ip, credentials, body,
                                      [validated |-> TRUE, user |-> r.user,
                                       rate_limit_result |-> r.rate_limit_result,
                                       analyzed |-> r.analyzed, response |-> r.response])
                    /\ zsets' = r.store.zsets
                    /\ lists' = r.store.lists
                    /\ expire_at' = r.store.expire_at
    /\ UNCHANGED <<now, redis_up, outages, limiter_vars, issued, mounted_vars, ledger_vars, admin_vars,
                  socket_vars, analyzer_vars>>

\* POST /analyze
Analyze(client_ip, request) == AnalyzeWithin(MaxRequests, client_ip, request)

NextApi ==
    \/ \E ip \in IPs, email \in Emails, plan \in RegisterPlans : Register(ip, email, plan)
    \/ \E ip \in IPs, request \in AnalyzeRequests : Analyze(ip, request)
    \/ Tick
    \/ RedisDown
    \/ RedisUp

SpecApi == Init /\ [][NextApi]_vars

\* ------------------------------------------------------- the mounted API
RECURSIVE PopLeftWhile(_, _)
\* while record and record[0] < cutoff: record.popleft()
PopLeftWhile(record, cutoff) ==
    IF record # <<>> /\ Head(record) < cutoff
    THEN PopLeftWhile(Tail(record), cutoff)
    ELSE record

\* check_rate_limit with the comparison len(record) > RATE_LIMIT_REQUESTS
check_rate_limit_off_by_one(client_ip) ==
    LET cleaned == PopLeftWhile(rate_limit_storage[client_ip], now - RATE_LIMIT_WINDOW)
    IN  IF Len(cleaned) > RATE_LIMIT_REQUESTS
        THEN [allowed |-> FALSE,
              storage |-> [rate_limit_storage EXCEPT ![client_ip] = cleaned]]
        ELSE [allowed |-> TRUE,
              storage |-> [rate_limit_storage EXCEPT ![client_ip] = Append(cleaned, now)]]

\* check_rate_limit(client_ip) of the mounted API: its answer and the
\* records after it.
check_rate_limit(client_ip) ==
    LET cleaned == PopLeftWhile(rate_limit_storage[client_ip], now - RATE_LIMIT_WINDOW)
    IN  IF Len(cleaned) >= RATE_LIMIT_REQUESTS
        THEN [allowed |-> FALSE,
              storage |-> [rate_limit_storage EXCEPT ![client_ip] = cleaned]]
        ELSE [allowed |-> TRUE,
              storage |-> [rate_limit_storage EXCEPT ![client_ip] = Append(cleaned, now)]]

\* The values 85.0 + random.uniform(-5, 5) is drawn from.
TestCoverages == {80, 90}

\* The mounted API's response format of an analysis result.
MountedAnalysisResponse(result, test_coverage) ==
    [language |-> result.language,
     complexity |-> result.metrics.cyclomatic_complexity,
     maintainability |-> result.metrics.maintainability_index,
     testCoverage |-> test_coverage,
     securityScore |->
         Max(0, 100 - Len(result.categories["security"]) * 15
                    - CountCritical(result.categories["security"]) * 25),
     performanceScore |->
         Max(0, 100 - Len(result.categories["performance"]) * 8
                    - Len(result.categories["memory"]) * 8
                    - CountNPlusOne(result.categories["performance"]) * 20),
     pattern |-> IF result.metrics.class_count > 0 THEN "Repository Pattern"
                 ELSE "Functional Pattern",
     issues |-> result.issues \o Flatten(result.categories, 1),
     suggestions |-> result.suggestions,
     metrics |-> result.metrics]

\* The answer of a rate limited endpoint to a caller over the limit.
TooManyRequests == Response(429, [detail |-> "Rate limit exceeded"])

\* What the mounted analyze handler does in the state it is called in, for a
\* body that passed validation: the response and the records after it.
MountedAnalyzeCode(client_ip, code, language, body, test_coverage) ==
    LET rl == check_rate_limit(client_ip)
        sanitized_code == SanitizedCodes[code]
        result == AnalyzerAnalyzeCode(sanitized_code, language, body.fault, body.bandit)
    IN  IF ~rl.allowed
        THEN [response |-> TooManyRequests, allowed |-> FALSE, analyzed |-> FALSE,
              storage |-> rl.storage]
        ELSE IF WaitFor(body.elapsed, MAX_ANALYSIS_TIME) = "TimeoutError"
        THEN [response |-> Response(408, [detail |-> "Analysis timeout"]),
              allowed |-> TRUE, analyzed |-> TRUE, storage |-> rl.storage]
        ELSE [response |-> Response(200, MountedAnalysisResponse(result, test_coverage)),
              allowed |-> TRUE, analyzed |-> TRUE, storage |-> rl.storage]

\* What the suggestions and the performance handler do: the response and the
\* records after it.
RateLimitedGet(client_ip, data) ==
    LET rl == check_rate_limit(client_ip)
    IN  IF ~rl.allowed
        THEN [response |-> TooManyRequests, allowed |-> FALSE, storage |-> rl.storage]
        ELSE [response |-> Response(200, [data |-> data]), allowed |-> TRUE,
              storage |-> rl.storage]

\* The requests check_rate_limit let pass, one more at this reading if it did.
Passed(client_ip, allowed) ==
    IF allowed
    THEN [passed EXCEPT ![client_ip][now] = passed[client_ip][now] + 1]
    ELSE passed

\* What check_rate_limit answered a request.
Checked(allowed) == [allowed |-> allowed]

\* POST /api/codepitamah/analyze
MountedAnalyze(client_ip, body, test_coverage) ==
    /\ nreq < MaxMountedRequests
    /\ nreq' = nreq + 1
    /\ \E code \in {ValidateCode(body.code)}, language \in {ValidateLanguage(body.language)} :
           IF ~code.ok \/ ~language.ok
           THEN /\ http' = Served("/api/codepitamah/analyze", client_ip, NoCredentials, body,
                                  Unprocessable(NoUser, IF ~code.ok THEN code.error
                                                        ELSE language.error))
                /\ UNCHANGED mounted_vars
           ELSE \E r \in {MountedAnalyzeCode(client_ip, code.value, language.value,
                                             body, test_coverage)} :
                    /\ http' = Served("/api/codepitamah/analyze", client_ip, NoCredentials, body,
                                      [validated |-> TRUE, user |-> NoUser,
                                       rate_limit_result |-> Checked(r.allowed),
                                       analyzed |-> r.analyzed, response |-> r.response])
                    /\ rate_limit_storage' = r.storage
                    /\ passed' = Passed(client_ip, r.allowed)
    /\ UNCHANGED <<now, redis_up, outages, store_vars, limiter_vars, issued, ledger_vars, admin_vars,
                  socket_vars, analyzer_vars>>

\* GET /api/codepitamah/suggestions and GET /api/codepitamah/performance
MountedGet(endpoint, client_ip) ==
    /\ nreq < MaxMountedRequests
    /\ nreq' = nreq + 1
    /\ \E r \in {RateLimitedGet(client_ip, endpoint)} :
           /\ http' = Served(endpoint, client_ip, NoCredentials, NoResult,
                             [validated |-> TRUE, user |-> NoUser,
                              rate_limit_result |-> Checked(r.allowed),
                              analyzed |-> FALSE, response |-> r.response])
           /\ rate_limit_storage' = r.storage
           /\ passed' = Passed(client_ip, r.allowed)
    /\ UNCHANGED <<now, redis_up, outages, store_vars, limiter_vars, issued, ledger_vars, admin_vars,
                  socket_vars, analyzer_vars>>

Suggestions(client_ip) == MountedGet("/api/codepitamah/suggestions", client_ip)

Performance(client_ip) == MountedGet("/api/codepitamah/performance", client_ip)

\* The texts sent to the mounted /analyze.
MountedCodes ==
    {CleanCode, ShoutingCode, ConcatLoopCode, DangerousCode, EmptyCode, BlankCode,
     OversizeCode}

\* The request bodies sent to the mounted /analyze: each text as Python, a
\* language the validator refuses, an analysis that overruns and a bandit
\* child that answers.
MountedBodies ==
    {Body(c, "Python", 1, NoFault, "raises") : c \in MountedCodes}
        \cup {Body(CleanCode, "cobol", 1, NoFault, "raises"),
              Body(CleanCode, "Python", MAX_ANALYSIS_TIME + 1, NoFault, "raises"),
              Body(CleanCode, "Python", 1, NoFault, "exit0")}

NextMounted ==
    \/ \E ip \in ClientIPs, body \in MountedBodies, tc \in TestCoverages : MountedAnalyze(ip, body, tc)
    \/ \E ip \in ClientIPs : Suggestions(ip)
    \/ \E ip \in ClientIPs : Performance(ip)
    \/ Tick

SpecMounted == Init /\ [][NextMounted]_vars

\* ---------------------------------------------------- the activity ledger
\* The activities the ledger is told of.
Activities == {"code_analysis", "dangerous_code_detected", "rate_limit_exceeded"}

\* The user whose activity is tracked.
Tracked == UserId(0, "a@example.com")

\* jwt_manager.track_user_activity(user_id, activity, {"ip_address": ip});
\* lpush raises RedisError while the store is down.
Track(user_id, activity, client_ip) ==
    /\ nreq < MaxTracked
    /\ nreq' = nreq + 1
    /\ IF redis_up
       THEN \E r \in {TrackUserActivity(user_id, activity, [ip_address |-> client_ip],
                                        [lists |-> lists, expire_at |-> expire_at])} :
                /\ lists' = r.lists
                /\ expire_at' = r.expire_at
       ELSE UNCHANGED <<lists, expire_at>>
    /\ UNCHANGED <<now, redis_up, outages, zsets, limiter_vars, issued, http, mounted_vars,
                   ledger_vars, admin_vars,
                  socket_vars, analyzer_vars>>

\* jwt_manager.detect_suspicious_activity(user_id); the activities it read
\* are kept next to what it returned.
Detect(user_id) ==
    /\ report' = [user_id |-> user_id,
                  activities |-> GetUserActivity(user_id, 1),
                  analysis |-> DetectSuspiciousActivity(user_id)]
    /\ UNCHANGED <<now, redis_up, outages, store_vars, limiter_vars, api_vars, mounted_vars, admin_vars,
                  socket_vars, analyzer_vars>>

NextLedger ==
    \/ \E activity \in Activities, ip \in IPs : Track(Tracked, activity, ip)
    \/ Detect(Tracked)
    \/ Tick
    \/ RedisDown
    \/ RedisUp

SpecLedger == Init /\ [][NextLedger]_vars

\* ------------------------------------------- CodeAnalyzer, called directly
AnalyzedLanguages == {"python", "javascript"}

\* code_analyzer.analyze_code(code, language)
Run(code, language, fault, bandit) ==
    /\ run' = [code |-> code, language |-> language, fault |-> fault, bandit |-> bandit,
               result |-> AnalyzerAnalyzeCode(code, language, fault, bandit)]
    /\ UNCHANGED <<now, redis_up, outages, store_vars, limiter_vars, api_vars,
                   mounted_vars, ledger_vars, admin_vars, socket_vars>>

NextAnalyzer ==
    \E code \in AnalyzedCodes, language \in AnalyzedLanguages,
       fault \in DetectorSet \cup {NoFault}, bandit \in BanditOutcomes :
        Run(code, language, fault, bandit)

SpecAnalyzer == Init /\ [][NextAnalyzer]_vars

\* ------------------------------------- the analyze endpoints and the text
\* The bodies sent to the two analyze endpoints: a plain text, one with blanks
\* around it, one with a sensitive line, one that starts with empty lines.
SubmittedBodies ==
    {Body(c, "python", 1, NoFault, "raises") :
        c \in {CleanCode, PaddedCode, SecretCode, LeadingBlankCode}}

NextSubmitted ==
    \/ \E ip \in ClientIPs, body \in SubmittedBodies, test_coverage \in TestCoverages :
           MountedAnalyze(ip, body, test_coverage)
    \/ \E ip \in IPs, body \in SubmittedBodies :
           Analyze(ip, [credentials |-> NoCredentials, body |-> body])
    \/ Tick

SpecSubmitted == Init /\ [][NextSubmitted]_vars

\* ------------------------------------------------------- WebSocketManager
\* The channels clients name, and the channels start_data_broadcast sends on.
Channels == {"mlops", "news"}

BroadcastChannels == {"mlops", "architecture", "optimization", "codepitamah"}

\* The manager's four attributes, as one value.
Manager ==
    [active_connections |-> active_connections, subscriptions |-> subscriptions,
     is_broadcasting |-> is_broadcasting, broadcast_task |-> broadcast_task]

\* x in list
IsIn(x, list) == \E i \in DOMAIN list : list[i] = x

\* list.remove(x): the list without the first x
RECURSIVE Remove(_, _)
Remove(list, x) ==
    IF list = <<>> THEN <<>>
    ELSE IF Head(list) = x THEN Tail(list)
    ELSE <<Head(list)>> \o Remove(Tail(list), x)

\* connect, after websocket.accept() has returned
Connect(m, websocket) ==
    LET connections == Append(m.active_connections, websocket)
    IN  IF ~m.is_broadcasting /\ connections # <<>>
        THEN [m EXCEPT !.active_connections = connections,
                       !.is_broadcasting = TRUE,
                       !.broadcast_task = "running"]
        ELSE [m EXCEPT !.active_connections = connections]

\* disconnect: out of the list, out of every subscription set, and the
\* broadcast stopped and its task cancelled when the list is empty.
Disconnect(m, websocket) ==
    LET connections == IF IsIn(websocket, m.active_connections)
                       THEN Remove(m.active_connections, websocket)
                       ELSE m.active_connections
        discarded == [channel \in DOMAIN m.subscriptions |->
                         m.subscriptions[channel] \ {websocket}]
    IN  IF connections = <<>> /\ m.is_broadcasting
        THEN [m EXCEPT !.active_connections = connections,
                       !.subscriptions = discarded,
                       !.is_broadcasting = FALSE,
                       !.broadcast_task = IF @ # NoTask THEN "cancelled" ELSE @]
        ELSE [m EXCEPT !.active_connections = connections,
                       !.subscriptions = discarded]

\* subscribe
Subscribe(m, websocket, channel) ==
    [m EXCEPT !.subscriptions =
        Put(@, channel, Get(@, channel, {}) \cup {websocket})]

\* unsubscribe
Unsubscribe(m, websocket, channel) ==
    IF channel \in DOMAIN m.subscriptions
    THEN [m EXCEPT !.subscriptions[channel] = @ \ {websocket}]
    ELSE m

\* websocket.send_text raises when the client is gone or the handler of the
\* connection has returned.
SendFails(websocket) == peer[websocket] = "gone" \/ handler[websocket] = "ended"

\* send_personal_message: a failed send disconnects the websocket
SendPersonalMessage(m, websocket) ==
    IF SendFails(websocket) THEN Disconnect(m, websocket) ELSE m

\* What a client sends: a subscription to a channel or to none, the same for
\* unsubscribe, another JSON object, JSON that is no object, and text that is
\* no JSON.
NoChannel == ""

Messages ==
    [type : {"subscribe", "unsubscribe"}, channel : Channels \cup {NoChannel}]
        \cup {[type |-> "other"], [type |-> "no object"], [type |-> "no JSON"]}

\* One round of the handler's loop: from receive_text returning the message
\* to the next receive_text, or to the end of the handler.
Handle(m, websocket, message) ==
    CASE message.type = "no JSON" ->       \* except json.JSONDecodeError
            [manager |-> SendPersonalMessage(m, websocket), ended |-> TRUE]
      [] message.type = "no object" ->     \* message.get raises: except Exception
            [manager |-> Disconnect(m, websocket), ended |-> TRUE]
      [] message.type = "subscribe" ->
            [manager |-> IF message.channel # NoChannel
                         THEN SendPersonalMessage(Subscribe(m, websocket, message.channel),
                                                  websocket)
                         ELSE m,
             ended |-> FALSE]
      [] message.type = "unsubscribe" ->
            [manager |-> IF message.channel # NoChannel
                         THEN SendPersonalMessage(Unsubscribe(m, websocket, message.channel),
                                                  websocket)
                         ELSE m,
             ended |-> FALSE]
      [] OTHER ->
            [manager |-> SendPersonalMessage(m, websocket), ended |-> FALSE]

\* The manager's attributes become those of m.
Becomes(m) ==
    /\ active_connections' = m.active_connections
    /\ subscriptions' = m.subscriptions
    /\ is_broadcasting' = m.is_broadcasting
    /\ broadcast_task' = m.broadcast_task

NotSockets ==
    UNCHANGED <<now, redis_up, outages, store_vars, limiter_vars, api_vars, mounted_vars,
                ledger_vars, admin_vars, analyzer_vars>>

\* A client opens /ws: the handler starts and connect accepts the websocket,
\* or accept raises because the client is gone and the handler ends.
Open(websocket) ==
    /\ handler[websocket] = "waiting"
    /\ IF peer[websocket] = "there"
       THEN /\ Becomes(Connect(Manager, websocket))
            /\ handler' = [handler EXCEPT ![websocket] = "open"]
       ELSE /\ UNCHANGED <<active_connections, subscriptions, is_broadcasting,
                           broadcast_task>>
            /\ handler' = [handler EXCEPT ![websocket] = "ended"]
    /\ UNCHANGED peer
    /\ NotSockets

\* receive_text returns a message, sent while the client was there, and the
\* handler deals with it.
Receive(websocket, message) ==
    /\ handler[websocket] = "open"
    /\ \E r \in {Handle(Manager, websocket, message)} :
           /\ Becomes(r.manager)
           /\ handler' = [handler EXCEPT ![websocket] = IF r.ended THEN "ended" ELSE @]
    /\ UNCHANGED peer
    /\ NotSockets

\* receive_text raises WebSocketDisconnect: the handler disconnects and ends.
Closed(websocket) ==
    /\ handler[websocket] = "open"
    /\ peer[websocket] = "gone"
    /\ Becomes(Disconnect(Manager, websocket))
    /\ handler' = [handler EXCEPT ![websocket] = "ended"]
    /\ UNCHANGED peer
    /\ NotSockets

\* The client goes away.
Leave(websocket) ==
    /\ peer[websocket] = "there"
    /\ peer' = [peer EXCEPT ![websocket] = "gone"]
    /\ UNCHANGED <<active_connections, subscriptions, is_broadcasting, broadcast_task,
                   handler>>
    /\ NotSockets

RECURSIVE DisconnectAll(_, _)
\* for websocket in disconnected: self.disconnect(websocket)
DisconnectAll(m, websockets) ==
    IF websockets = {} THEN m
    ELSE LET websocket == CHOOSE w \in websockets : TRUE
         IN  DisconnectAll(Disconnect(m, websocket), websockets \ {websocket})

\* One round of start_data_broadcast: broadcast_to_channel on each of its
\* four channels disconnects the subscribers its send fails for.
Broadcast ==
    /\ broadcast_task = "running"
    /\ is_broadcasting
    /\ Becomes(DisconnectAll(Manager,
                             {w \in WebSockets :
                                 /\ SendFails(w)
                                 /\ \E channel \in BroadcastChannels \cap DOMAIN subscriptions :
                                        w \in subscriptions[channel]}))
    /\ UNCHANGED <<handler, peer>>
    /\ NotSockets

NextSockets ==
    \/ \E websocket \in WebSockets : Open(websocket)
    \/ \E websocket \in WebSockets, message \in Messages : Receive(websocket, message)
    \/ \E websocket \in WebSockets : Closed(websocket)
    \/ \E websocket \in WebSockets : Leave(websocket)
    \/ Broadcast

SpecSockets == Init /\ [][NextSockets]_vars

\* ------------------------------- RedisRateLimiter: status and reset
\* The identities whose records are read and reset.
Identifiers == {"ip1", "ip2"}

\* ZRANGE key -1 -1 WITHSCORES: the entry of greatest score, if any.
ZRangeLast(zset) ==
    IF zset = {} THEN <<>>
    ELSE <<CHOOSE e \in zset : \A f \in zset : f.score <= e.score>>

\* TTL key: -2 for a key that does not exist, -1 for one that never expires.
Ttl(k) ==
    IF k \notin DOMAIN zsets THEN 0 - 2
    ELSE IF k \notin DOMAIN expire_at THEN 0 - 1
    ELSE expire_at[k] - now

\* DEL key: the number of keys removed, and the store without the key.
Delete(k) ==
    [result |-> IF k \in DOMAIN zsets \cup DOMAIN lists THEN 1 ELSE 0,
     zsets |-> Drop(zsets, {k}),
     lists |-> Drop(lists, {k}),
     expire_at |-> Drop(expire_at, {k})]

\* The dictionary get_rate_limit_status returns when the store answered.
StatusResult(k) ==
    LET oldest_requests == ZRangeFirst(ZSet(k))
        newest_requests == ZRangeLast(ZSet(k))
    IN  [current_count |-> ZCard(ZSet(k)),
         window_info |->
             IF oldest_requests # <<>> /\ newest_requests # <<>>
             THEN <<[oldest_request |-> IsoFormat(FromTimestamp(oldest_requests[1].score)),
                     newest_request |-> IsoFormat(FromTimestamp(newest_requests[1].score)),
                     window_span_seconds |->
                         newest_requests[1].score - oldest_requests[1].score]>>
             ELSE <<>>,
         ttl |-> Ttl(k),
         error |-> NoError]

\* get_rate_limit_status that also enters the query into the record
GetRateLimitStatusCounting(identifier, limit_type) ==
    LET k == RateKey(limit_type, identifier)
    IN  IF redis_up
        THEN [result |-> StatusResult(k),
              zsets |-> Put(zsets, k, ZAdd(ZSet(k), Str(Timestamp(now)), Timestamp(now))),
              lists |-> lists, expire_at |-> expire_at]
        ELSE [result |-> [error |-> "Redis unavailable"],
              zsets |-> zsets, lists |-> lists, expire_at |-> expire_at]

\* get_rate_limit_status: zcard, two zrange and ttl, with the store as they
\* leave it.
GetRateLimitStatus(identifier, limit_type) ==
    LET k == RateKey(limit_type, identifier)
    IN  IF redis_up
        THEN [result |-> StatusResult(k),
              zsets |-> zsets, lists |-> lists, expire_at |-> expire_at]
        ELSE [result |-> [error |-> "Redis unavailable"],
              zsets |-> zsets, lists |-> lists, expire_at |-> expire_at]

\* reset_rate_limit that reports success whatever was deleted
ResetRateLimitAlwaysTrue(identifier, limit_type) ==
    LET d == Delete(RateKey(limit_type, identifier))
    IN  IF redis_up
        THEN [result |-> d.result >= 0,
              zsets |-> d.zsets, lists |-> d.lists, expire_at |-> d.expire_at]
        ELSE [result |-> FALSE,
              zsets |-> zsets, lists |-> lists, expire_at |-> expire_at]

\* reset_rate_limit: delete the key and return result > 0, or False from the
\* except redis.RedisError branch.
ResetRateLimit(identifier, limit_type) ==
    LET d == Delete(RateKey(limit_type, identifier))
    IN  IF redis_up
        THEN [result |-> d.result > 0,
              zsets |-> d.zsets, lists |-> d.lists, expire_at |-> d.expire_at]
        ELSE [result |-> FALSE,
              zsets |-> zsets, lists |-> lists, expire_at |-> expire_at]

\* What answer keeps of a call: the function, its identity, whether the store
\* answered, and the value returned.
Answered(op, identifier, value) ==
    [op |-> op, identifier |-> identifier, store_up |-> redis_up, value |-> value]

Calls(op, identifier, r) ==
    /\ answer' = Answered(op, identifier, r.result)
    /\ zsets' = r.zsets
    /\ lists' = r.lists
    /\ expire_at' = r.expire_at
    /\ UNCHANGED <<now, redis_up, outages, limiter_vars, api_vars, mounted_vars,
                   ledger_vars, socket_vars, analyzer_vars>>

\* check_rate_limit(identifier, "ip", user_plan)
Check(identifier, user_plan) ==
    \E r \in {CheckRateLimit(identifier, "ip", user_plan)} :
        Calls("check_rate_limit", identifier, r @@ [lists |-> lists])

\* get_rate_limit_status(identifier)
Status(identifier) ==
    \E r \in {GetRateLimitStatus(identifier, "ip")} :
        Calls("get_rate_limit_status", identifier, r)

\* reset_rate_limit(identifier)
Reset(identifier) ==
    \E r \in {ResetRateLimit(identifier, "ip")} :
        Calls("reset_rate_limit", identifier, r)

NextAdmin ==
    \/ \E identifier \in Identifiers : Check(identifier, "anonymous")
    \/ \E identifier \in Identifiers : Status(identifier)
    \/ \E identifier \in Identifiers : Reset(identifier)
    \/ Tick
    \/ RedisDown
    \/ RedisUp

SpecAdmin == Init /\ [][NextAdmin]_vars

\* ------------------------------------------------- a client at its quota
\* The store answers throughout: without it the limiter admits everything.
\* The requests a client sends to /analyze on its way to the quota and
\* beyond: a clean and a denylisted text, with and without a token.
QuotaRequests ==
    [credentials : {NoCredentials} \cup {Bearer(tok) : tok \in issued}, body : TokenBodies]

NextQuota ==
    \/ \E ip \in IPs, email \in Emails :
           RegisterWithin(MaxQuotaRequests, ip, email, "free")
    \/ \E ip \in IPs, request \in QuotaRequests :
           AnalyzeWithin(MaxQuotaRequests, ip, request)
    \/ \E tok \in issued : Detect(tok.payload.user_id)
    \/ Tick

SpecQuota == Init /\ [][NextQuota]_vars

Next ==
    \/ \E p \in Procs, a \in CallArgs : CallStart(p, a)
    \/ \E p \in Procs : Execute(p)
    \/ \E p \in Procs : ZRange(p)
    \/ Tick
    \/ RedisDown
    \/ RedisUp

Spec == Init /\ [][Next]_vars


\* ------------------------------------------------- claims: rate limiter
PlanOfKey(k) == (CHOOSE a \in CallArgs : KeyOf(a) = k).user_plan

Quota(k) == Limits(PlanOfKey(k)).requests

RECURSIVE SumOver(_, _)
SumOver(f, S) ==
    IF S = {} THEN 0
    ELSE LET x == CHOOSE y \in S : TRUE IN f[x] + SumOver(f, S \ {x})

\* Calls for key k admitted on the store path with a reading in (t - window, t].
AdmittedIn(k, t) == SumOver(admitted[k], {r \in Times : t - Window < r /\ r <= t})

Last(k) == returned[k][Len(returned[k])]

\* C1: for every key and instant t, at most quota calls with readings in
\* (t - window, t] were admitted on the store path, equal readings included.
C1_AdmittedWithinQuota ==
    \A k \in RateKeys, t \in Times : AdmittedIn(k, t) <= Quota(k)

C3_QuotaThenDenied ==
    \A k \in RateKeys :
        (/\ streak[k].n > 0
         /\ streak[k].clean
         /\ Last(k).t - streak[k].t0 < Window)
        => /\ streak[k].n <= Quota(k) => Last(k).result.allowed
           /\ streak[k].n = Quota(k) + 1 =>
                 ~Last(k).result.allowed /\ Last(k).result.remaining = 0

\* C4: once quota calls were admitted, a call made more than window after the
\* last admitted one is admitted, whatever was denied in between.
C4_AdmittedAfterWindow ==
    \A k \in RateKeys :
        (/\ streak[k].n > 0
         /\ streak[k].clean
         /\ SumOver(admitted[k], Times) >= Quota(k)
         /\ \A r \in Times : admitted[k][r] > 0 => r + Window < Last(k).t)
        => Last(k).result.allowed

\* C5: a call denied with reset_time R, followed by no call before R, is
\* followed by an admitted call at or after R.
C5_RetryAtResetSucceeds ==
    \A k \in RateKeys :
        Len(returned[k]) = 2 =>
            LET d == returned[k][1]
                e == returned[k][2]
            IN  (/\ StorePath(d.result) /\ ~d.result.allowed
                 /\ d.result.reset_time # None
                 /\ ~d.overlap /\ ~e.overlap
                 /\ StorePath(e.result)
                 /\ e.t >= d.result.reset_time)
                => e.result.allowed

\* ---------------------------------------------------------- claims: API
\* The last request was an /analyze request whose body passed validation.
AnalyzeServed == http.endpoint = "analyze" /\ http.validated

\* The response tells the caller that the limiter answered without its store.
MarkedDegraded(data) == "error" \in DOMAIN data.rate_limit_info

\* C6: an /analyze request served while the store is down is admitted by the
\* limiter, and the result the caller receives is marked rate-limit-degraded.
C6_OutageAdmittedAndMarked ==
    (AnalyzeServed /\ ~http.store_up) =>
        /\ http.rate_limit_result.allowed
        /\ http.response.status = 200 => MarkedDegraded(http.response.data)

\* C7: an /analyze request served while the store is down is answered with
\* the analysis result, never with 500, whoever the caller is.
C7_OutageNeverInternalError ==
    (AnalyzeServed /\ ~http.store_up) => http.response.status = 200

\* The token fails verification at instant t: it is no token, it is signed
\* with another key, or it has expired.
FailsVerification(token, t) ==
    \/ ~token.wellformed
    \/ token.sig # secret_key
    \/ token.payload.exp <= t

\* The step serves an /analyze request that carries a token failing
\* verification.
InvalidTokenStep ==
    /\ nreq' = nreq + 1
    /\ http'.endpoint = "analyze"
    /\ http'.validated
    /\ http'.credentials.scheme = "Bearer"
    /\ FailsVerification(http'.credentials.credentials, now)

\* What the handler does with the same body and no Authorization header.
SameWithoutToken ==
    AnalyzeCode(http'.client_ip, NoCredentials, ValidateCode(http'.body.code).value,
                ValidateLanguage(http'.body.language).value,
                http'.body.elapsed, http'.body.fault, http'.body.bandit)

\* C8: a validated /analyze request with a token that fails verification is
\* served exactly as the same request without a token: same response, same
\* effect on the store, counted under the client IP with the anonymous
\* quota, and analysed whenever the limiter admits it.
C8_InvalidTokenIsAnonymous ==
    [][InvalidTokenStep =>
        /\ http'.response = SameWithoutToken.response
        /\ <<zsets', lists', expire_at'>> =
               <<SameWithoutToken.store.zsets, SameWithoutToken.store.lists,
                 SameWithoutToken.store.expire_at>>
        /\ http'.user = NoUser
        /\ http'.rate_limit_result.plan = "anonymous"
        /\ \A k \in DOMAIN zsets' :
               zsets'[k] # Get(zsets, k, {}) => k = RateKey("ip", http'.client_ip)
        /\ http'.response.status \in {200, 429}
        /\ http'.rate_limit_result.allowed => http'.analyzed /\ http'.response.status = 200
      ]_vars

\* C8 witness: /analyze served a request whose token, issued by /register,
\* had expired, and answered 200.
C8_Witness ==
    /\ AnalyzeServed
    /\ http.credentials.scheme = "Bearer"
    /\ http.credentials.credentials \in issued
    /\ http.credentials.credentials.payload.exp <= http.t
    /\ http.response.status = 200

\* C9: a request whose analysis ran longer than MAX_ANALYSIS_TIME is answered
\* 408, never with a result.
C9_OverrunIsTimeout ==
    (http.endpoint = "analyze" /\ http.analyzed /\ http.body.elapsed > MAX_ANALYSIS_TIME)
        => http.response.status = 408

\* The scanners that raised during the analysis of the last request.
Failing(body) ==
    {d \in DetectorSet :
        d = body.fault \/ Raises(d, SanitizeCodeForAnalysis(ValidateCode(body.code).value))}

Contains(seq, x) == \E i \in DOMAIN seq : seq[i] = x

\* C10: when exactly one scanner raises on Python code, the result still
\* carries the structural metrics of the text and every finding of the
\* other nine scanners.
C10_FailingDetectorIsolated ==
    (/\ http.endpoint = "analyze"
     /\ http.analyzed
     /\ ValidateLanguage(http.body.language).value = "python"
     /\ Cardinality(Failing(http.body)) = 1)
        => LET code == SanitizeCodeForAnalysis(ValidateCode(http.body.code).value)
           IN  /\ http.response.status = 200
               /\ http.response.data.metrics = PythonMetrics(code)
               /\ \A d \in DetectorSet \ Failing(http.body) :
                      \A i \in DOMAIN CategoryIssues(d, code, http.body.bandit) :
                          Contains(http.response.data.issues,
                                   CategoryIssues(d, code, http.body.bandit)[i])

\* The kinds of outcome a response can stand for.
OutcomeKinds ==
    {"Success", "ValidationError", "AdmissionDenied", "AnalysisTimeout", "InternalError"}

\* The status codes of a typed failure.
FailureStatus(o) ==
    CASE o = "ValidationError" -> {400, 422}
      [] o = "AdmissionDenied" -> {429}
      [] o = "AnalysisTimeout" -> {408}
      [] o = "InternalError" -> {500}
      [] OTHER -> {}

\* The outcomes the response r stands for: a success carries an analysis
\* result, a typed failure carries its status and no result.
Outcomes(r) ==
    {o \in OutcomeKinds :
        IF o = "Success"
        THEN r.status = 200 /\ "metrics" \in DOMAIN r.data
        ELSE r.status \in FailureStatus(o) /\ "metrics" \notin DOMAIN r.data}

\* C11: every analyze request whose code is at or under the size ceiling
\* ends in exactly one outcome out of success with an analysis result,
\* ValidationError, AdmissionDenied, AnalysisTimeout and InternalError,
\* whatever faults occur on the way.
C11_ExactlyOneOutcome ==
    (http.endpoint = "analyze" /\ CodeLength(http.body.code) <= MAX_CODE_SIZE)
        => Cardinality(Outcomes(http.response)) = 1

\* C11 witness: a token-identified request served during a store outage ended
\* in InternalError and nothing else.
C11_Witness ==
    /\ http.endpoint = "analyze"
    /\ CodeLength(http.body.code) <= MAX_CODE_SIZE
    /\ ~http.store_up
    /\ http.user.authenticated
    /\ Outcomes(http.response) = {"InternalError"}

\* The step serves a request whose check_rate_limit call was answered by the
\* store.
StoreCheckedStep ==
    /\ nreq' = nreq + 1
    /\ http'.endpoint \in {"register", "analyze"}
    /\ http'.validated
    /\ StorePath(http'.rate_limit_result)

\* The key the step's check_rate_limit call counted under.
CheckedKey ==
    IF http'.user.authenticated THEN RateKey("user", http'.user.data.user_id)
    ELSE RateKey("ip", http'.client_ip)

\* C16: a check_rate_limit result of the store path reports remaining =
\* max(0, quota - c) and allowed = (c <= quota), where c is the number of
\* entries in the caller's window after the request's own entry was inserted.
C16_RemainingAfterInsert ==
    [][StoreCheckedStep =>
        LET c == ZCard(Get(zsets', CheckedKey, {}))
            quota == http'.rate_limit_result.limit
        IN  /\ http'.rate_limit_result.remaining = Max(0, quota - c)
            /\ http'.rate_limit_result.allowed = (c <= quota)
      ]_vars

\* The step serves an /analyze request.
AnalyzeStep == nreq' = nreq + 1 /\ http'.endpoint = "analyze"

\* The key of the day's activity list of the user the step's request is
\* counted under.
TodaysList == ActivityKey(http'.user.data.user_id, Day(now))

\* C20 (token): an /analyze request of a token-identified caller that ends
\* with a result puts exactly one code_analysis record on the user's list of
\* the day, sets the list to expire after 7 days, and get_user_activity
\* returns the record.
C20_TokenTracked ==
    (AnalyzeStep /\ http'.user.authenticated /\ http'.response.status = 200) =>
        /\ Len(Get(lists', TodaysList, <<>>)) = Len(List(TodaysList)) + 1
        /\ Tail(lists'[TodaysList]) = List(TodaysList)
        /\ JsonLoads(Head(lists'[TodaysList])).activity = "code_analysis"
        /\ JsonLoads(Head(lists'[TodaysList])).user_id = http'.user.data.user_id
        /\ \A k \in DOMAIN lists' : k # TodaysList => k \in DOMAIN lists /\ lists'[k] = lists[k]
        /\ expire_at'[TodaysList] = now + 7 * DayLength
        /\ \A user_id \in {UserId(t, email) : t \in Times, email \in Emails} :
               user_id = http'.user.data.user_id =>
                   Contains(GetUserActivity(user_id, 1)', JsonLoads(Head(lists'[TodaysList])))

\* C20 (anonymous): an /analyze request of an anonymous caller puts no
\* record on any list.
C20_AnonymousUntracked ==
    (AnalyzeStep /\ ~http'.user.authenticated) => lists' = lists

\* C20: each /analyze request of a token-identified caller that completes
\* with a result appends exactly one code_analysis record to the user's list
\* of the current day with a retention of 7 days, get_user_activity returns
\* it, and requests of anonymous callers append none.
C20_ActivityRecorded == [][C20_TokenTracked /\ C20_AnonymousUntracked]_vars

\* C20 witness: a request with a token that /register issued was answered
\* with a result, and the newest record of the user's list of the day is its
\* code_analysis record.
C20_Witness ==
    /\ AnalyzeServed
    /\ http.user.authenticated
    /\ http.response.status = 200
    /\ http.t = now
    /\ List(ActivityKey(http.user.data.user_id, Day(now))) # <<>>
    /\ JsonLoads(Head(List(ActivityKey(http.user.data.user_id, Day(now))))).activity
           = "code_analysis"
    /\ Len(GetUserActivity(http.user.data.user_id, 1)) = 2

\* The step is a /register request that hands out a token.
IssuingStep ==
    /\ nreq' = nreq + 1
    /\ http'.endpoint = "register"
    /\ http'.response.status = 200

\* The step is an /analyze request, with a valid body, that presents a token
\* /register has issued.
PresentingStep ==
    /\ nreq' = nreq + 1
    /\ http'.endpoint = "analyze"
    /\ http'.validated
    /\ http'.credentials.scheme = "Bearer"
    /\ http'.credentials.credentials \in issued

\* C21 (round trip): the token issued for user data d verifies, less than a
\* token lifetime after issue, to a payload with every field of d unchanged,
\* and fails with "Token expired" more than a lifetime after issue.
C21_RoundTrip ==
    IssuingStep =>
        LET d == http'.response.data.user
            token == http'.response.data.token
        IN  \A t \in now..(MaxClock + 1) :
                /\ t - now < TokenLifetime =>
                       /\ VerifyUserToken(token, t).ok
                       /\ \A f \in DOMAIN d : VerifyUserToken(token, t).payload[f] = d[f]
                /\ t - now > TokenLifetime =>
                       /\ ~VerifyUserToken(token, t).ok
                       /\ VerifyUserToken(token, t).error = "Token expired"

\* C21 (no stored state): whether an issued token identifies the caller
\* depends on its age alone, not on the store or its condition.
C21_Stateless ==
    PresentingStep =>
        LET token == http'.credentials.credentials
        IN  /\ now - token.payload.iat < TokenLifetime =>
                /\ http'.user.authenticated
                /\ http'.user.data = token.payload
            /\ now - token.payload.iat > TokenLifetime => http'.user = NoUser

MountedAnalyzeServed == http.endpoint = "/api/codepitamah/analyze"

\* The code fails the input guard: it is empty or blank, over the size
\* ceiling, or matches a pattern of the denylist.
FailsInputGuard(code) ==
    \/ Strip(code) = EmptyCode
    \/ CodeLength(code) > MAX_CODE_SIZE
    \/ MatchesDangerousPattern(code)

\* C12: the admission check comes before the input guard: a request whose
\* code fails the guard has been counted against the caller's window, or was
\* answered AdmissionDenied because the caller was over quota.
C12_AdmissionBeforeGuard ==
    (MountedAnalyzeServed /\ FailsInputGuard(http.body.code)) =>
        \/ http.response.status = 429
        \/ Contains(rate_limit_storage[http.client_ip], http.t)

\* C13: input that is empty or blank, over the size ceiling, or matching a
\* pattern of the denylist is rejected before any parsing: the analyzer is
\* not invoked for it and the response carries no metrics.
C13_RejectedBeforeParsing ==
    (MountedAnalyzeServed /\ FailsInputGuard(http.body.code)) =>
        /\ ~http.validated
        /\ ~http.analyzed
        /\ Outcomes(http.response) = {"ValidationError"}

\* C13 witness: "import os\nprint('x')" was sent and refused unanalysed.
C13_Witness ==
    /\ MountedAnalyzeServed
    /\ http.body.code = DangerousCode
    /\ ~http.analyzed
    /\ "metrics" \notin DOMAIN http.response.data

\* C14: an /analyze request whose code matches a dangerous pattern or is over
\* the size ceiling is answered 400, and code that passes the guard is
\* answered 200 while the caller is under quota.
C14_DangerousOrOversizeIs400 ==
    MountedAnalyzeServed =>
        /\ (MatchesDangerousPattern(http.body.code)
                \/ CodeLength(http.body.code) > MAX_CODE_SIZE)
             => http.response.status = 400
        /\ (/\ ~FailsInputGuard(http.body.code)
            /\ ValidateLanguage(http.body.language).ok
            /\ http.rate_limit_result = Checked(TRUE))
             => http.response.status = 200

\* The endpoints of the mounted API that call check_rate_limit.
RateLimitedEndpoints ==
    {"/api/codepitamah/analyze", "/api/codepitamah/suggestions",
     "/api/codepitamah/performance"}

\* Requests of the client that passed check_rate_limit with a reading in
\* [t - window, t], whatever the endpoint.
PassedIn(ip, t) ==
    SumOver(passed[ip], {r \in Times : t - RATE_LIMIT_WINDOW <= r /\ r <= t})

\* Sequence s is what is left of r after dropping entries from its front.
Suffix(s, r) == \E n \in 0..Len(r) : s = SubSeq(r, n + 1, Len(r))

\* The step serves a request of the client that reaches check_rate_limit.
LimiterStep(ip) ==
    /\ nreq' = nreq + 1
    /\ http'.endpoint \in RateLimitedEndpoints
    /\ http'.client_ip = ip
    /\ http'.validated

\* C15 (the windows): for every client and every window, at most
\* RATE_LIMIT_REQUESTS requests passed check_rate_limit, counted over the
\* three endpoints together.
C15_WithinLimit ==
    \A ip \in ClientIPs, t \in Times : PassedIn(ip, t) <= RATE_LIMIT_REQUESTS

\* C15 (the next request): a request of a client with RATE_LIMIT_REQUESTS
\* requests passed inside the window is answered 429 and leaves no entry in
\* the client's record; any other request that reaches the limiter passes.
C15_NextRejected ==
    \A ip \in ClientIPs :
        LimiterStep(ip) =>
            IF PassedIn(ip, now) >= RATE_LIMIT_REQUESTS
            THEN /\ http'.response.status = 429
                 /\ Suffix(rate_limit_storage'[ip], rate_limit_storage[ip])
                 /\ passed' = passed
            ELSE /\ http'.response.status # 429
                 /\ passed'[ip][now] = passed[ip][now] + 1

\* C15: in-process limiter of the mounted API: at most RATE_LIMIT_REQUESTS
\* requests per client and window pass check_rate_limit over /analyze,
\* /suggestions and /performance together, the next one inside the window is
\* answered 429, and a rejected request adds no entry to the client's record.
C15_InProcessLimiter == []C15_WithinLimit /\ [][C15_NextRejected]_vars

\* C15 witness: a client with RATE_LIMIT_REQUESTS requests passed inside the
\* window asked /performance and was answered 429.
C15_Witness ==
    /\ http.endpoint = "/api/codepitamah/performance"
    /\ PassedIn(http.client_ip, now) = RATE_LIMIT_REQUESTS
    /\ http.response.status = 429
    /\ Len(rate_limit_storage[http.client_ip]) = RATE_LIMIT_REQUESTS

\* The request the mounted /analyze served in state h was analysed and
\* answered with a result, and no fault was injected into a scanner.
Analysed(h) ==
    /\ h.endpoint = "/api/codepitamah/analyze"
    /\ h.analyzed
    /\ h.response.status = 200
    /\ h.body.fault = NoFault

\* The step analyses the text and language the request before it analysed.
SameInputAgain ==
    /\ nreq' = nreq + 1
    /\ Analysed(http)
    /\ Analysed(http')
    /\ ValidateCode(http'.body.code).value = ValidateCode(http.body.code).value
    /\ ValidateLanguage(http'.body.language).value = ValidateLanguage(http.body.language).value

\* C17: analysis is deterministic and keeps no state between requests: two
\* runs on the same (code, language) return equal metrics and equal lists of
\* findings in every category.
C17_SameInputSameResult ==
    [][SameInputAgain =>
        /\ http'.response.data.metrics = http.response.data.metrics
        /\ http'.response.data.issues = http.response.data.issues
        /\ http'.response.data.suggestions = http.response.data.suggestions
      ]_vars

\* The namespace each scanner declares for its rule ids.
Namespace(d) ==
    CASE d = "security" -> "SEC_"
      [] d = "performance" -> "PERF_"
      [] d = "memory" -> "MEM_"
      [] d = "code_smell" -> "SMELL_"
      [] d = "async" -> "ASYNC_"
      [] d = "api" -> "API_"
      [] d = "data_flow" -> "DATA_"
      [] d = "dependency" -> "DEP_"
      [] d = "testing" -> "TEST_"
      [] d = "algorithm" -> "ALG_"

\* The prefix of a rule id up to its first underscore; none for a finding
\* without rule id.
RulePrefix(rule_id) ==
    CASE rule_id = NoRule -> ""
      [] rule_id = "SEC_SQL_INJECTION" -> "SEC_"
      [] rule_id \in {"PERF_STRING_CONCAT_LOOP", "PERF_LIST_CONCAT_IN_LOOP"} -> "PERF_"
      [] rule_id = "ASYNC_BLOCKING_SLEEP" -> "ASYNC_"
      [] rule_id = "DATA_DB_WITHOUT_SANITIZATION" -> "DATA_"
      [] rule_id = "DEP_MISSING_MANAGEMENT" -> "DEP_"
      [] rule_id \in {"TEST_MISSING_ERROR_HANDLING", "TEST_MISSING_FUNCTION_TEST"} -> "TEST_"
      [] rule_id = "ALG_DB_QUERY" -> "ALG_"

\* C18: every finding in a category list of a Python analysis carries a rule
\* id of that scanner's namespace: none is missing, none has the prefix of
\* another category.
C18_RuleIdInNamespace ==
    (/\ Analysed(http)
     /\ ValidateLanguage(http.body.language).value = "python"
     /\ Failing(http.body) = {})
        => LET code == SanitizeCodeForAnalysis(ValidateCode(http.body.code).value)
           IN  \A d \in DetectorSet :
                   \A i \in DOMAIN CategoryIssues(d, code, http.body.bandit) :
                       /\ Contains(http.response.data.issues,
                                   CategoryIssues(d, code, http.body.bandit)[i])
                       /\ RulePrefix(CategoryIssues(d, code, http.body.bandit)[i].rule_id)
                              = Namespace(d)

\* ------------------------------------------------ claims: activity ledger
\* The indicator counts of a list of activity records: records, dangerous
\* code attempts, rate limit violations, overnight requests.
IndicatorCounts(activities) ==
    [records |-> Len(activities),
     dangerous |-> Cardinality({j \in DOMAIN activities :
                                   activities[j].activity = "dangerous_code_detected"}),
     violations |-> Cardinality({j \in DOMAIN activities :
                                    activities[j].activity = "rate_limit_exceeded"}),
     overnight |-> Cardinality({j \in DOMAIN activities :
                                   Hour(FromIsoFormat(activities[j].timestamp))
                                       \in UnusualFrom..UnusualTo})]

\* The sum, in tenths, of the weights of the indicators over their threshold.
WeightSum(counts) ==
    (IF counts.records > VolumeThreshold THEN 3 ELSE 0)
        + (IF counts.dangerous > DangerousThreshold THEN 4 ELSE 0)
        + (IF counts.violations > ViolationThreshold THEN 2 ELSE 0)
        + (IF counts.overnight > UnusualThreshold THEN 1 ELSE 0)

\* C19 (the score): the score is the sum of the weights of the exceeded
\* indicators, as a double within one unit in the last place of it, and lies
\* in [0, 1].
C19_ScoreIsWeightSum ==
    report # NoReport =>
        LET score == report.analysis.suspicious_score
        IN  /\ score.tenths = WeightSum(IndicatorCounts(report.activities))
            /\ score.ulps \in {0 - 1, 0, 1}
            /\ ~Greater(Double(0, 0), score)
            /\ ~Greater(score, Double(10, 0))

\* C19 (growth): from one detection to the next, when no indicator count is
\* lower than before, the score is not lower than before.
C19_ScoreMonotone ==
    (report # NoReport /\ report' # report) =>
        LET before == IndicatorCounts(report.activities)
            after == IndicatorCounts(report'.activities)
        IN  (/\ after.records >= before.records
             /\ after.dangerous >= before.dangerous
             /\ after.violations >= before.violations
             /\ after.overnight >= before.overnight)
                => ~Greater(report.analysis.suspicious_score,
                            report'.analysis.suspicious_score)

\* C19: the suspicion score of detect_suspicious_activity is the sum of the
\* weights of the indicators whose threshold is exceeded, lies in [0, 1] for
\* every list of activity records, and does not decrease when indicator
\* counts grow.
C19_SuspicionScore == []C19_ScoreIsWeightSum /\ [][C19_ScoreMonotone]_vars

\* C19 witness: a detection over a list that exceeds all four thresholds,
\* with the score 0.9999999999999999.
C19_Witness ==
    /\ report # NoReport
    /\ WeightSum(IndicatorCounts(report.activities)) = 10
    /\ report.analysis.suspicious_score = Double(10, 0 - 1)
    /\ report.analysis.recommendation = "block_user"

\* C22: analysing the Python text "def f(): return 1" yields function_count
\* 1, class_count 0, cyclomatic_complexity 1 and no security finding,
\* however the bandit child process fares.
C22_CleanCodeFacts ==
    (/\ Analysed(http)
     /\ ValidateCode(http.body.code).value = CleanCode
     /\ ValidateLanguage(http.body.language).value = "python")
        => /\ http.response.data.metrics.function_count = 1
           /\ http.response.data.metrics.class_count = 0
           /\ http.response.data.metrics.cyclomatic_complexity = 1
           /\ http.response.data.securityScore = 100
           /\ \A i \in DOMAIN http.response.data.issues :
                  http.response.data.issues[i].type # "info"

\* -------------------------------------------- claims: a client at its quota
RegisterStep == nreq' = nreq + 1 /\ http'.endpoint = "register"

\* The step serves a /register request whose admission check denied it.
RegisterDenied ==
    RegisterStep /\ http'.validated /\ ~http'.rate_limit_result.allowed

\* C23 (effects): a denied /register request issues no token and writes no
\* activity record.
C23_NoTokenNoRecord == [][RegisterDenied => issued' = issued /\ lists' = lists]_vars

\* C23: a /register request of a client address that has used up the
\* anonymous quota is answered with 429, issues no token and writes no
\* activity record.
C23_DeniedRegisterIs429 ==
    [][RegisterDenied =>
          /\ http'.response.status = 429
          /\ issued' = issued
          /\ lists' = lists]_vars

\* The step serves a request to /register or /analyze.
RequestStep == nreq' = nreq + 1 /\ http'.endpoint \in {"register", "analyze"}

\* C28 (types): every record of the ledger is a user_registration or a
\* code_analysis.
C28_OnlyTwoActivityTypes ==
    \A k \in DOMAIN lists : \A i \in DOMAIN lists[k] :
        JsonLoads(lists[k][i]).activity \in {"user_registration", "code_analysis"}

\* C28 (rejections): a request that the validator rejects, the denylist
\* included, or that the limiter denies writes no record.
C28_RejectionsUnrecorded ==
    (RequestStep /\ (~http'.validated \/ ~http'.rate_limit_result.allowed)) =>
        lists' = lists

\* C28 (indicators): whatever detect_suspicious_activity has returned counts
\* no dangerous code attempt and no rate limit violation and does not
\* recommend block_user.
C28_NeverBlockUser ==
    report # NoReport =>
        /\ report.analysis.indicators.dangerous_code_attempts = 0
        /\ report.analysis.indicators.rate_limit_violations = 0
        /\ report.analysis.recommendation # "block_user"

\* C28: register and analyze requests write only user_registration and
\* code_analysis records, a denied or denylisted request writes none, so the
\* dangerous_code_attempts and rate_limit_violations indicators are 0 and
\* detect_suspicious_activity never recommends block_user.
C28_LedgerTypes ==
    /\ [](C28_OnlyTwoActivityTypes /\ C28_NeverBlockUser)
    /\ [][C28_RejectionsUnrecorded]_vars

\* C28 witness: a registered user's request with a denylisted text was
\* rejected, the user's ledger has records, and detect_suspicious_activity
\* has judged them.
C28_Witness ==
    /\ http.endpoint = "analyze"
    /\ ~http.validated
    /\ http.body.code = DangerousCode
    /\ report # NoReport
    /\ \E tok \in issued :
           /\ http.credentials = Bearer(tok)
           /\ report.user_id = tok.payload.user_id
    /\ Len(report.activities) >= 1
    /\ report.activities = GetUserActivity(report.user_id, 1)
    /\ report.analysis.recommendation \in {"normal", "monitor"}

\* ---------------------------------------------- claims: status and reset
\* The step is a call of op for the identity: the clock and the store's
\* availability stay, and answer holds the call.
CallStep(op, identifier) ==
    /\ now' = now
    /\ redis_up' = redis_up
    /\ answer'.op = op
    /\ answer'.identifier = identifier

\* C26: get_rate_limit_status does not increment the counter: a call leaves
\* every record, its entries and its time to live, as it was, so a
\* check_rate_limit made after it returns what it would have returned
\* without the call.
C26_StatusReadsOnly ==
    [][\A identifier \in Identifiers :
          CallStep("get_rate_limit_status", identifier) =>
              /\ ZCard(ZSet(RateKey("ip", identifier)))' =
                     ZCard(ZSet(RateKey("ip", identifier)))
              /\ store_vars' = store_vars
              /\ Ttl(RateKey("ip", identifier))' = Ttl(RateKey("ip", identifier))
              /\ \A other \in Identifiers :
                     CheckRateLimit(other, "ip", "anonymous")' =
                         CheckRateLimit(other, "ip", "anonymous")]_vars

\* C26 witness: the status of an identity with a live record of at least one
\* entry was read from the store.
C26_Witness ==
    /\ answer.op = "get_rate_limit_status"
    /\ answer.store_up
    /\ answer.value.current_count >= 1
    /\ answer.value.ttl > 0
    /\ ZCard(ZSet(RateKey("ip", answer.identifier))) = answer.value.current_count

\* C27 (store up): the reset removes the identity's record, returns whether
\* there was one, leaves the other identities' records alone, and a check
\* made next is admitted with a count of 0.
C27_ResetDeletes ==
    \A identifier \in Identifiers :
        (CallStep("reset_rate_limit", identifier) /\ redis_up) =>
            /\ RateKey("ip", identifier) \notin DOMAIN zsets'
            /\ RateKey("ip", identifier) \notin DOMAIN expire_at'
            /\ answer'.value = (RateKey("ip", identifier) \in DOMAIN zsets)
            /\ \A other \in Identifiers \ {identifier} :
                   /\ ZSet(RateKey("ip", other))' = ZSet(RateKey("ip", other))
                   /\ Ttl(RateKey("ip", other))' = Ttl(RateKey("ip", other))
            /\ lists' = lists
            /\ CheckRateLimit(identifier, "ip", "anonymous")'.result.allowed
            /\ CheckRateLimit(identifier, "ip", "anonymous")'.result.current_count = 0

\* C27 (store down): the reset returns false and changes nothing.
C27_ResetFails ==
    \A identifier \in Identifiers :
        (CallStep("reset_rate_limit", identifier) /\ ~redis_up) =>
            answer'.value = FALSE /\ store_vars' = store_vars

\* C27 (next check): the check_rate_limit that follows a reset the store
\* carried out, whatever time has passed, is admitted with a count of 0.
C27_NextCheckAdmitted ==
    \A identifier \in Identifiers :
        (/\ answer.op = "reset_rate_limit"
         /\ answer.identifier = identifier
         /\ answer.store_up
         /\ CallStep("check_rate_limit", identifier)) =>
            answer'.value.allowed /\ answer'.value.current_count = 0

\* C27: reset_rate_limit removes the whole record of the identity and returns
\* true exactly if there was one; the next check_rate_limit of the identity
\* is admitted with current_count 0; the records of other identities stay;
\* on a store error it returns false.
C27_ResetRateLimit ==
    [][C27_ResetDeletes /\ C27_ResetFails /\ C27_NextCheckAdmitted]_vars

\* C27 witness: a reset returned true while the other identity has a record,
\* and the record of the reset identity is gone.
C27_Witness ==
    /\ answer.op = "reset_rate_limit"
    /\ answer.store_up
    /\ answer.value = TRUE
    /\ RateKey("ip", answer.identifier) \notin DOMAIN zsets
    /\ \E other \in Identifiers \ {answer.identifier} : ZSet(RateKey("ip", other)) # {}

\* ------------------------------------------------ claims: the analyzer
\* The last call analysed Python text that does not parse, with no scanner
\* failing for reasons outside the text.
ParseFailed == run.language = "python" /\ ~Parses(run.code) /\ run.fault = NoFault

\* The findings of the result that report a syntax error.
SyntaxErrorFindings(result) ==
    {i \in DOMAIN result.issues : result.issues[i].message = "Syntax error"}

\* What C24 says of a result for the text.
DegradedResult(result, code, bandit) ==
    /\ result.language = "python"
    /\ Cardinality(SyntaxErrorFindings(result)) = 1
    /\ \A i \in SyntaxErrorFindings(result) :
           /\ result.issues[i].severity = "high"
           /\ result.issues[i].line = SyntaxErrorLine(code)
    /\ \A d \in DetectorSet : \A i \in DOMAIN result.categories[d] :
           result.categories[d][i].message # "Syntax error"
    /\ result.metrics.lines_of_code = LineCount(code)
    /\ result.metrics.cyclomatic_complexity = 1
    /\ result.metrics.maintainability_index = 500
    /\ result.metrics.function_count = 0
    /\ result.metrics.class_count = 0
    /\ \A d \in DetectorSet : result.categories[d] = CategoryIssues(d, code, bandit)

\* C24 (texts no scanner raises on): a parse failure gives the degraded
\* result.
C24_DegradedUnlessScannerRaises ==
    (ParseFailed /\ ~\E d \in DetectorSet : Raises(d, run.code)) =>
        DegradedResult(run.result, run.code, run.bandit)

\* C24: when Python text does not parse the pipeline does not fail: the
\* result has exactly one high-severity syntax-error finding at the line
\* the parser reported, the metrics are the line count, complexity 1,
\* maintainability 50, no functions and no classes, and all ten scanners
\* have run on the text.
C24_ParseFailureDegrades == ParseFailed => DegradedResult(run.result, run.code, run.bandit)

\* The number of times the string occurs in the list.
Occurrences(suggestions, suggestion) ==
    Cardinality({i \in DOMAIN suggestions : suggestions[i] = suggestion})

\* C25 (rules): the suggestion of a rule id is in the list once if a finding
\* of the generator's category has the rule id, and not at all otherwise.
C25_RuleSuggestionsOnce ==
    run.language = "python" =>
        \A d \in DOMAIN CanonicalSuggestions : \A e \in DOMAIN CanonicalSuggestions[d] :
            Occurrences(run.result.suggestions, CanonicalSuggestions[d][e][2]) =
                IF AnyRule(run.result.categories[d], CanonicalSuggestions[d][e][1])
                THEN 1 ELSE 0

\* C25 (list): no string is in the suggestions twice.
C25_NoSuggestionTwice ==
    run.language = "python" =>
        \A i, j \in DOMAIN run.result.suggestions :
            run.result.suggestions[i] = run.result.suggestions[j] => i = j

\* C25: every rule id with a canonical suggestion puts it into the result's
\* suggestions exactly once when some finding has the rule id and not at all
\* when none has, however many findings share it, and the suggestions hold
\* no string twice.
C25_SuggestionsDeduplicated == C25_RuleSuggestionsOnce /\ C25_NoSuggestionTwice

\* ---------------------------------- claims: the analyze endpoints and the text
\* An analyze endpoint has answered the last request with a result.
ResultServed ==
    /\ http.endpoint \in {"analyze", "/api/codepitamah/analyze"}
    /\ http.validated
    /\ http.response.status = 200

\* The text the handler holds, and the text it hands to the analyzer.
HandledText == ValidateCode(http.body.code).value

AnalysedText == SanitizeCodeForAnalysis(HandledText)

RedactionComment == "# [REDACTED - Contains sensitive information]"

\* line.strip()
StripLine(line) == IF line = "  def f(): return 1" THEN "def f(): return 1" ELSE line

\* Line n of the analysed text is line n of the submitted text, as it was
\* submitted, without the blanks around it, or redacted.
SameLine(n) ==
    /\ n \in DOMAIN Lines(http.body.code)
    /\ n \in DOMAIN Lines(AnalysedText)
    /\ \/ Lines(AnalysedText)[n] = Lines(http.body.code)[n]
       \/ Lines(AnalysedText)[n] = StripLine(Lines(http.body.code)[n])
       \/ /\ HasSensitiveKeyword(Lines(http.body.code)[n])
          /\ Lines(AnalysedText)[n] = RedactionComment

\* C29 (redaction): the text analysed has the lines of the text the handler
\* holds, each sensitive line replaced by the redaction comment, and the
\* response has no finding of a hardcoded secret or credential.
C29_RedactedLineByLine ==
    ResultServed =>
        /\ Len(Lines(AnalysedText)) = Len(Lines(HandledText))
        /\ \A n \in DOMAIN Lines(HandledText) :
               Lines(AnalysedText)[n] =
                   IF HasSensitiveKeyword(Lines(HandledText)[n]) THEN RedactionComment
                   ELSE Lines(HandledText)[n]
        /\ \A i \in DOMAIN http.response.data.issues :
               http.response.data.issues[i].rule_id \notin
                   {"SEC_HARDCODED_SECRET", "SEC_HARDCODED_CREDENTIALS"}

\* C29 (line numbers): the line number of every finding of the response
\* names the same line in the submitted text as in the analysed text.
C29_LineNumbersOfSubmittedText ==
    ResultServed =>
        \A i \in DOMAIN http.response.data.issues : SameLine(http.response.data.issues[i].line)

\* C29: the analyze endpoints replace every line that holds password,
\* secret, key, token or credential by the redaction comment and keep the
\* number of lines, so no response has a finding SEC_HARDCODED_SECRET or
\* SEC_HARDCODED_CREDENTIALS and every line number reported refers to the
\* same line of the submitted text.
C29_RedactionKeepsLines == C29_RedactedLineByLine /\ C29_LineNumbersOfSubmittedText

\* ------------------------------------------------- claims: websockets
\* The websocket is in no attribute of the manager.
Forgotten(websocket) ==
    /\ ~IsIn(websocket, active_connections)
    /\ \A channel \in DOMAIN subscriptions : websocket \notin subscriptions[channel]

\* C30 (flag): is_broadcasting is true exactly when active_connections is
\* not empty.
C30_BroadcastingIffConnected == is_broadcasting <=> active_connections # <<>>

\* C30 (other endings): a handler that has ended while the manager still
\* holds its websocket got text that is no JSON.
C30_ForgottenUnlessInvalidJson ==
    [][\A websocket \in WebSockets :
          (handler[websocket] = "open" /\ handler'[websocket] = "ended"
           /\ ~Forgotten(websocket)')
              => /\ peer[websocket] = "there"
                 /\ Handle(Manager, websocket, [type |-> "no JSON"]).manager = Manager']_vars

\* C30: when the /ws handler of a connection has ended, for whatever reason,
\* its websocket is out of active_connections and of every subscription
\* set; is_broadcasting is true exactly when active_connections is not
\* empty; and once no handler is running the broadcast task is cancelled.
C30_HandlerEndCleansUp ==
    /\ \A websocket \in WebSockets : handler[websocket] = "ended" => Forgotten(websocket)
    /\ C30_BroadcastingIffConnected
    /\ (\A websocket \in WebSockets : handler[websocket] # "open") =>
           broadcast_task \in {NoTask, "cancelled"}

====
